---- MODULE Spec2Model ----
(***************************************************************************)
(* A model of lib/cosutil.py (calcos): reference-table row selection       *)
(* (getTable, activeArea), the data-quality flagging functions             *)
(* (updateDQArray, flagOutOfBounds, flagOutsideActiveArea), the dispersion *)
(* relation (evalDisp, evalDerivDisp, evalInvDisp), the geometric          *)
(* correction (geometricDistortion, getGeoData) and the statistics         *)
(* (computeStat, combineStat).                                             *)
(*                                                                         *)
(* Floating-point shifts are held exactly as integer counts of half        *)
(* pixels ("halves"): 3 stands for 1.5.  Pixel values are non-negative     *)
(* integers read as bit masks.                                             *)
(***************************************************************************)
EXTENDS Integers, Sequences, FiniteSets, TLC

VARIABLES
    env,        \* what the functions read: reference tables, headers, info
    dq_array,   \* the caller's data quality array, dq_array[y][x]
    dq_before,  \* dq_array as it was when the last call started
    call,       \* the last call: its name and its arguments
    ret,        \* how the last call ended: status, value
    log,        \* the warnings printed by the last call
    opened      \* the reference files opened by the last call

vars == <<env, dq_array, dq_before, call, ret, log, opened>>

(***************************************************************************)
(* Values of calcosparam used by cosutil.                                  *)
(***************************************************************************)
STRING_WILDCARD == "ANY"
INT_WILDCARD == -1
NOT_APPLICABLE == "N/A"
DQ_OK == 0
DQ_OUT_OF_BOUNDS == 128

(***************************************************************************)
(* Python values.  A filter value carries its type, because a string and  *)
(* an integer never compare equal.  None is the "no rows" value.           *)
(***************************************************************************)
Str(s) == [t |-> "str", v |-> s]
Int_(i) == [t |-> "int", v |-> i]
PyNone == [none |-> TRUE, rows |-> <<>>]
Data(rows) == [none |-> FALSE, rows |-> rows]

Ok(value, warnings, files) ==
    [status |-> "ok", msg |-> "", value |-> value, log |-> warnings,
     opened |-> files]
Raise(kind, msg, warnings, files) ==
    [status |-> kind, msg |-> msg, value |-> PyNone, log |-> warnings,
     opened |-> files]

(***************************************************************************)
(* getTable                                                                *)
(***************************************************************************)
\* the data type of each column of the reference tables
ColType ==
    [segment |-> "str", cenwave |-> "int",
     a_low |-> "int", a_high |-> "int", a_left |-> "int", a_right |-> "int",
     lx |-> "int", ly |-> "int", dx |-> "int", dy |-> "int", dq |-> "int"]

\* a mutant of FilterSkipsKey: NOT_APPLICABLE is no longer a wildcard
FilterSkipsKey_onlyAny(fv) == fv = Str(STRING_WILDCARD)

\* lines 233-235: the test is not applied for a wildcard filter value
FilterSkipsKey(fv) ==
    fv = Str(STRING_WILDCARD) \/ fv = Str(NOT_APPLICABLE)

\* a mutant of CellEquals: the comparison with the filter value is lost
CellEquals_any(row, key, fv) == TRUE

\* line 237: column == filter[key], for one row
CellEquals(row, key, fv) == ColType[key] = fv.t /\ row[key] = fv.v

\* lines 240-246: wildcards in the table; only a string column is tested,
\* the test for INT_WILDCARD is commented out
CellWild(row, key) ==
    IF ColType[key] = "str" THEN row[key] = STRING_WILDCARD ELSE FALSE

\* lines 230-256, for one row: every non-skipped criterion selects the row
RowSelected(row, filter) ==
    \A key \in DOMAIN filter :
        FilterSkipsKey(filter[key]) \/ CellEquals(row, key, filter[key])
                                    \/ CellWild(row, key)

\* lines 250-256: data[selected], or a copy of the whole table
SelectRows(data, filter) ==
    LET Test(row) == RowSelected(row, filter) IN SelectSeq(data, Test)

\* a mutant of MustMatch: at_least_one is ignored
MustMatch_exactlyOnly(exactly_one, at_least_one) == exactly_one

\* line 264: the policies under which no matching row is an error
MustMatch(exactly_one, at_least_one) == exactly_one \/ at_least_one

MSG_NO_ROW == "Table has no matching row"
WARN_MANY_ROWS == "Table has more than one matching row; only the first will be used."

getTable(table, data, filter, exactly_one, at_least_one) ==
    LET newdata == SelectRows(data, filter)
        nselect == Len(newdata)
    IN  IF MustMatch(exactly_one, at_least_one) /\ nselect < 1
        THEN Raise("RuntimeError", MSG_NO_ROW, <<>>, {table})
        ELSE Ok(IF nselect < 1 THEN PyNone ELSE Data(newdata),
                IF exactly_one /\ nselect > 1 THEN <<WARN_MANY_ROWS>> ELSE <<>>,
                {table})

(***************************************************************************)
(* activeArea                                                              *)
(***************************************************************************)
NUVSegments == {"NUVA", "NUVB", "NUVC"}
FUVSegments == {"FUVA", "FUVB"}

\* the detector, scaled down to a few pixels: NUV is square, FUV is wider
\* than it is high
DetSize == 3
NUV_X == DetSize
NUV_Y == DetSize
FUV_X == DetSize + 1
FUV_Y == DetSize

\* a mutant of FirstRow: the last matching row is used
FirstRow_last(rows) == rows[Len(rows)]

\* lines 520-523: field (...)[0]
FirstRow(rows) == rows[1]

activeArea(segment, brftab, data) ==
    IF segment \in NUVSegments
    THEN Ok(<<0, NUV_Y - 1, 0, NUV_X - 1>>, <<>>, {})
    ELSE LET brf_info == getTable(brftab, data, [segment |-> Str(segment)],
                                  TRUE, FALSE)
             row == FirstRow(brf_info.value.rows)
         IN  IF brf_info.status # "ok" THEN brf_info
             ELSE Ok(<<row.a_low, row.a_high, row.a_left, row.a_right>>,
                     brf_info.log, brf_info.opened)

(***************************************************************************)
(* Specification SpecTable: getTable and activeArea over small tables.     *)
(***************************************************************************)
MaxRows == 2

KeyCells ==
    [segment : FUVSegments \cup {STRING_WILDCARD},
     cenwave : {1, 2, INT_WILDCARD}]

\* row i of a table carries values that identify it
MkRow(cells, i) ==
    [segment |-> cells.segment, cenwave |-> cells.cenwave,
     a_low |-> i, a_high |-> i + 10, a_left |-> i + 20, a_right |-> i + 30]

TablesOfLen(n) ==
    { [i \in 1..n |-> MkRow(f[i], i)] : f \in [1..n -> KeyCells] }

Tables == UNION { TablesOfLen(n) : n \in 0..MaxRows }

FilterValues ==
    [segment |-> { Str(s) : s \in FUVSegments \cup
                                  {STRING_WILDCARD, NOT_APPLICABLE} },
     cenwave |-> { Int_(i) : i \in {1, 2} } \cup {Str(NOT_APPLICABLE)}]

FiltersOn(keys) ==
    { f \in [keys -> UNION { FilterValues[k] : k \in keys }] :
        \A k \in keys : f[k] \in FilterValues[k] }

Filters == UNION { FiltersOn(keys) : keys \in SUBSET {"segment", "cenwave"} }

NoArray == <<>>
NoCall == [op |-> "none"]
NoRet == Ok(PyNone, <<>>, {})

InitTable ==
    /\ env \in { [brftab |-> t] : t \in Tables }
    /\ dq_array = NoArray
    /\ dq_before = NoArray
    /\ call = NoCall
    /\ ret = NoRet
    /\ log = <<>>
    /\ opened = {}

Returned(r) ==
    /\ ret' = r
    /\ log' = r.log
    /\ opened' = r.opened

CallGetTable ==
    \E filter \in Filters, exactly_one \in BOOLEAN, at_least_one \in BOOLEAN :
        /\ call = NoCall
        /\ call' = [op |-> "getTable", filter |-> filter,
                    exactly_one |-> exactly_one, at_least_one |-> at_least_one]
        /\ Returned(getTable("brftab", env.brftab, filter,
                             exactly_one, at_least_one))
        /\ UNCHANGED <<env, dq_array, dq_before>>

CallActiveArea ==
    \E segment \in FUVSegments \cup NUVSegments :
        /\ call = NoCall
        /\ call' = [op |-> "activeArea", segment |-> segment]
        /\ Returned(activeArea(segment, "brftab", env.brftab))
        /\ UNCHANGED <<env, dq_array, dq_before>>

NextTable == CallGetTable \/ CallActiveArea

SpecTable == InitTable /\ [][NextTable]_vars

(***************************************************************************)
(* Claims about getTable and activeArea (specification SpecTable).         *)
(***************************************************************************)
IsGetTable == call.op = "getTable"

Without(filter, key) == [k \in DOMAIN filter \ {key} |-> filter[k]]

RowsOf(value) == IF value.none THEN <<>> ELSE value.rows

IsWildcardValue(fv) ==
    fv \in {Str(STRING_WILDCARD), Str(NOT_APPLICABLE)}

\* C7: a filter key whose value is STRING_WILDCARD or NOT_APPLICABLE matches
\* every row: the call ends as the call with that key removed from the
\* filter does; when every key of the filter is a wildcard (or the filter
\* is empty) the selected rows are all rows of the table, in table order.
C7_WildcardFilterValue ==
    IsGetTable =>
        /\ \A key \in DOMAIN call.filter :
               IsWildcardValue(call.filter[key]) =>
                   ret = getTable("brftab", env.brftab,
                                  Without(call.filter, key),
                                  call.exactly_one, call.at_least_one)
        /\ (\A key \in DOMAIN call.filter :
                IsWildcardValue(call.filter[key]))
               => /\ RowsOf(ret.value) = env.brftab
                  /\ ret.status = "ok" <=>
                         ~(env.brftab = <<>> /\
                           (call.exactly_one \/ call.at_least_one))

C7_Witness ==
    /\ IsGetTable
    /\ DOMAIN call.filter = {"segment", "cenwave"}
    /\ call.filter["segment"] = Str(NOT_APPLICABLE)
    /\ call.filter["cenwave"] = Int_(1)
    /\ Len(env.brftab) = 2
    /\ env.brftab[1].segment = "FUVA" /\ env.brftab[1].cenwave = 1
    /\ env.brftab[2].segment = "FUVB" /\ env.brftab[2].cenwave = 1
    /\ Len(RowsOf(ret.value)) = 2

\* the wildcard sentinel for a column's data type
WildcardOf(key) ==
    IF ColType[key] = "str" THEN STRING_WILDCARD ELSE INT_WILDCARD

\* the rows the docstring of getTable says are selected
DocumentedRows(data, filter) ==
    LET Test(row) ==
            \A key \in DOMAIN filter :
                \/ IsWildcardValue(filter[key])
                \/ (ColType[key] = filter[key].t /\ row[key] = filter[key].v)
                \/ row[key] = WildcardOf(key)
    IN  SelectSeq(data, Test)

\* C8: with a concrete filter value, exactly the rows are selected whose
\* cell equals the filter value or holds the wildcard of the column's data
\* type (STRING_WILDCARD for a string column, INT_WILDCARD for an integer
\* column), for every filter key.
C8_TableWildcardByType ==
    (IsGetTable /\ ret.status = "ok") =>
        RowsOf(ret.value) = DocumentedRows(env.brftab, call.filter)

NoRowMatches ==
    \A i \in 1..Len(env.brftab) : ~RowSelected(env.brftab[i], call.filter)

\* C9: getTable fails with RuntimeError "Table has no matching row" exactly
\* when no row matches and exactly_one or at_least_one is true; with
\* neither policy and no matching row it returns None.
C9_NoMatchingRow ==
    IsGetTable =>
        /\ (ret.status = "RuntimeError" /\ ret.msg = MSG_NO_ROW)
               <=> (NoRowMatches /\ (call.exactly_one \/ call.at_least_one))
        /\ ret.status \in {"ok", "RuntimeError"}
        /\ (NoRowMatches /\ ~call.exactly_one /\ ~call.at_least_one)
               => (ret.status = "ok" /\ ret.value = PyNone)

C9_Witness ==
    /\ IsGetTable
    /\ Len(env.brftab) = 2
    /\ NoRowMatches
    /\ call.at_least_one /\ ~call.exactly_one
    /\ ret.status = "RuntimeError"

MatchingIndices(data, filter) ==
    { i \in 1..Len(data) : RowSelected(data[i], filter) }

FirstMatch(data, filter) ==
    LET m == MatchingIndices(data, filter)
    IN  data[CHOOSE i \in m : \A j \in m : i <= j]

\* C10: when exactly_one is requested and more than one row matches,
\* getTable does not fail but prints a warning, and activeArea returns
\* a_low, a_high, a_left, a_right of the first matching row in table order.
C10_FirstOfSeveralRows ==
    /\ (IsGetTable /\ call.exactly_one
          /\ Cardinality(MatchingIndices(env.brftab, call.filter)) > 1)
         => /\ ret.status = "ok"
            /\ log = <<WARN_MANY_ROWS>>
            /\ ret.value.rows[1] = FirstMatch(env.brftab, call.filter)
    /\ (call.op = "activeArea" /\ call.segment \in FUVSegments
          /\ Cardinality(MatchingIndices(env.brftab,
                             [segment |-> Str(call.segment)])) > 1)
         => LET row == FirstMatch(env.brftab, [segment |-> Str(call.segment)])
            IN  /\ ret.status = "ok"
                /\ log = <<WARN_MANY_ROWS>>
                /\ ret.value = <<row.a_low, row.a_high, row.a_left, row.a_right>>

C10_Witness ==
    /\ call.op = "activeArea"
    /\ call.segment = "FUVB"
    /\ Len(env.brftab) = 2
    /\ env.brftab[1].segment = STRING_WILDCARD
    /\ env.brftab[2].segment = "FUVB"
    /\ ret.status = "ok"
    /\ ret.value = <<1, 11, 21, 31>>
    /\ log = <<WARN_MANY_ROWS>>

(***************************************************************************)
(* Arrays and numbers.                                                     *)
(***************************************************************************)
Max(a, b) == IF a >= b THEN a ELSE b
Min(a, b) == IF a <= b THEN a ELSE b

\* numpy's bitwise_or on non-negative integers
RECURSIVE BitOr(_, _)
BitOr(a, b) ==
    IF a = 0 THEN b
    ELSE IF b = 0 THEN a
    ELSE (IF a % 2 = 1 \/ b % 2 = 1 THEN 1 ELSE 0)
             + 2 * BitOr(a \div 2, b \div 2)

\* Python 2 round() followed by int(), of a number given in halves:
\* a half is rounded away from zero
PyRound(h) == IF h >= 0 THEN (h + 1) \div 2 ELSE -((-h + 1) \div 2)

Full(ny, nx, v) == [y \in 0..(ny - 1) |-> [x \in 0..(nx - 1) |-> v]]
NY(a) == Cardinality(DOMAIN a)
NX(a) == Cardinality(DOMAIN a[0])

\* how a call on the array ended: dq is the caller's array afterwards
Done(dq, warnings, files) ==
    [status |-> "ok", msg |-> "", dq |-> dq, log |-> warnings,
     opened |-> files]
Failed(kind, msg, dq, warnings, files) ==
    [status |-> kind, msg |-> msg, dq |-> dq, log |-> warnings,
     opened |-> files]

(***************************************************************************)
(* updateDQArray                                                           *)
(*   minmax_shifts  = <<min_shift1, max_shift1, min_shift2, max_shift2>>   *)
(*   minmax_doppler = <<mindopp, maxdopp>>, all in halves                  *)
(***************************************************************************)
\* a mutant of ShiftedLx: the envelope's minimum is always subtracted
ShiftedLx_alwaysMin(lx, minmax_shifts, minmax_doppler) ==
    lx - PyRound(minmax_shifts[1]) + PyRound(minmax_doppler[1])

\* lines 659-664, 672: the lower dispersion bound of a row
ShiftedLx(lx, minmax_shifts, minmax_doppler) ==
    (IF minmax_shifts[2] >= 0
     THEN lx - PyRound(minmax_shifts[2])
     ELSE lx - PyRound(minmax_shifts[1])) + PyRound(minmax_doppler[1])

\* lines 657, 659-664, 673: the upper dispersion bound of a row
ShiftedUx(lx, dx, minmax_shifts, minmax_doppler) ==
    (IF minmax_shifts[2] >= 0
     THEN (lx + dx - 1) - PyRound(minmax_shifts[1])
     ELSE (lx + dx - 1) - PyRound(minmax_shifts[2])) + PyRound(minmax_doppler[2])

\* lines 665-670: the lower cross-dispersion bound of a row
ShiftedLy(ly, minmax_shifts) ==
    IF minmax_shifts[4] >= 0
    THEN ly - PyRound(minmax_shifts[4])
    ELSE ly - PyRound(minmax_shifts[3])

\* lines 658, 665-670: the upper cross-dispersion bound of a row
ShiftedUy(ly, dy, minmax_shifts) ==
    IF minmax_shifts[4] >= 0
    THEN (ly + dy - 1) - PyRound(minmax_shifts[3])
    ELSE (ly + dy - 1) - PyRound(minmax_shifts[4])

\* ccos.bindq: row k's flag is OR-ed into the pixels of the inclusive
\* rectangle [lx[k] + x_offset, ux[k] + x_offset] x [ly[k], uy[k]] that lie
\* in the array
RECURSIVE bindqPixel(_, _, _, _, _, _, _, _, _)
bindqPixel(lx, ly, ux, uy, flag, value, y, x, k) ==
    IF k > Len(flag) THEN value
    ELSE bindqPixel(lx, ly, ux, uy, flag,
                    IF /\ lx[k] <= x /\ x <= ux[k]
                       /\ ly[k] <= y /\ y <= uy[k]
                    THEN BitOr(value, flag[k]) ELSE value,
                    y, x, k + 1)

bindq(lx, ly, ux, uy, flag, dq, x_offset) ==
    [y \in DOMAIN dq |->
        [x \in DOMAIN dq[y] |->
            bindqPixel([k \in DOMAIN lx |-> lx[k] + x_offset], ly,
                       [k \in DOMAIN ux |-> ux[k] + x_offset], uy,
                       flag, dq[y][x], y, x, 1)]]

updateDQArray(bpixtab, data, info, dq, minmax_shifts, minmax_doppler) ==
    LET got == getTable(bpixtab, data, [segment |-> Str(info.segment)],
                        FALSE, FALSE)
        dq_info == got.value.rows
        rows == DOMAIN dq_info
    IN  IF got.value = PyNone THEN Done(dq, got.log, got.opened)
        ELSE Done(bindq(
                [k \in rows |-> ShiftedLx(dq_info[k].lx, minmax_shifts,
                                          minmax_doppler)],
                [k \in rows |-> ShiftedLy(dq_info[k].ly, minmax_shifts)],
                [k \in rows |-> ShiftedUx(dq_info[k].lx, dq_info[k].dx,
                                          minmax_shifts, minmax_doppler)],
                [k \in rows |-> ShiftedUy(dq_info[k].ly, dq_info[k].dy,
                                          minmax_shifts)],
                [k \in rows |-> dq_info[k].dq],
                dq, info.x_offset),
             got.log, got.opened)

(***************************************************************************)
(* Exposures: the array as the caller holds it, and the envelopes.         *)
(***************************************************************************)
\* shifts reach MaxShiftH halves in either direction
MaxShiftH == 2
ShiftValues == (-MaxShiftH)..MaxShiftH
CrossShiftValues == {-MaxShiftH, -1, 0, MaxShiftH}
DopplerValues == {-1, 0, 1}

Ranges(values) == { r \in values \X values : r[1] <= r[2] }

ShiftRanges ==
    { <<a[1], a[2], b[1], b[2]>> : a \in Ranges(ShiftValues),
                                   b \in Ranges(CrossShiftValues) }
DopplerRanges == Ranges(DopplerValues)

DetectorOf(segment) == IF segment \in NUVSegments THEN "NUV" ELSE "FUV"

\* the array is wider than the detector by x_offset on either side
ArrayNX(segment, x_offset) ==
    (IF DetectorOf(segment) = "FUV" THEN FUV_X ELSE NUV_X) + 2 * x_offset
ArrayNY(segment) == IF DetectorOf(segment) = "FUV" THEN FUV_Y ELSE NUV_Y

\* the array on input: zero-filled, or read from the raw file with flags set
InputArrays(ny, nx) ==
    { [y \in 0..(ny - 1) |->
          [x \in 0..(nx - 1) |-> IF (x + y) % 2 = 0 THEN 0 ELSE 10]] }

Infos ==
    [segment : {"FUVA", "NUVA"}, x_offset : {0, 1}]

BpixRow(segment, lx, ly, dx, dy, dq) ==
    [segment |-> segment, lx |-> lx, ly |-> ly, dx |-> dx, dy |-> dy,
     dq |-> dq]

BpixTables ==
    { <<>>,
      << BpixRow("FUVB", 0, 0, 2, 2, 8) >>,
      << BpixRow("FUVA", 1, 0, 2, 2, 2), BpixRow("FUVB", 0, 0, 1, 1, 8),
         BpixRow(STRING_WILDCARD, 0, 1, 3, 1, 4) >>,
      << BpixRow("NUVA", 2, 1, 1, 2, 6), BpixRow("FUVA", 0, 2, 4, 1, 130) >> }

(***************************************************************************)
(* Specification SpecBpix: one call of updateDQArray.                      *)
(***************************************************************************)
InitBpix ==
    /\ env \in { [bpixtab |-> t, info |-> i] : t \in BpixTables, i \in Infos }
    /\ dq_array \in InputArrays(ArrayNY(env.info.segment),
                                ArrayNX(env.info.segment, env.info.x_offset))
    /\ dq_before = dq_array
    /\ call = NoCall
    /\ ret = NoRet
    /\ log = <<>>
    /\ opened = {}

\* the call returns or raises: the array is the caller's either way
Ended(r) ==
    /\ dq_before' = dq_array
    /\ dq_array' = r.dq
    /\ ret' = [status |-> r.status, msg |-> r.msg]
    /\ log' = r.log
    /\ opened' = r.opened

CallUpdateDQArrayOnce ==
    \E minmax_shifts \in ShiftRanges, minmax_doppler \in DopplerRanges :
        /\ call = NoCall
        /\ call' = [op |-> "updateDQArray", minmax_shifts |-> minmax_shifts,
                    minmax_doppler |-> minmax_doppler]
        /\ Ended(updateDQArray("bpixtab", env.bpixtab, env.info, dq_array,
                               minmax_shifts, minmax_doppler))
        /\ UNCHANGED env

NextBpix == CallUpdateDQArrayOnce

SpecBpix == InitBpix /\ [][NextBpix]_vars

(***************************************************************************)
(* Claims about updateDQArray (specification SpecBpix).                    *)
(***************************************************************************)
IsUpdate == call.op = "updateDQArray"

RECURSIVE OrSeq(_)
OrSeq(flags) ==
    IF flags = <<>> THEN 0 ELSE BitOr(Head(flags), OrSeq(Tail(flags)))

\* a row of the bad pixel table matches the segment filter
BpixRowMatches(row) ==
    row.segment = env.info.segment \/ row.segment = STRING_WILDCARD

\* the rectangle of the claim, for a row and the envelopes of the call
C1_XLow(row, s, d) ==
    IF s[2] >= 0
    THEN row.lx - PyRound(s[2]) + PyRound(d[1]) + env.info.x_offset
    ELSE row.lx - PyRound(s[1]) + PyRound(d[1]) + env.info.x_offset
C1_XHigh(row, s, d) ==
    IF s[2] >= 0
    THEN (row.lx + row.dx - 1) - PyRound(s[1]) + PyRound(d[2]) + env.info.x_offset
    ELSE (row.lx + row.dx - 1) - PyRound(s[2]) + PyRound(d[2]) + env.info.x_offset
C1_YLow(row, s) ==
    IF s[4] >= 0 THEN row.ly - PyRound(s[4]) ELSE row.ly - PyRound(s[3])
C1_YHigh(row, s) ==
    IF s[4] >= 0 THEN (row.ly + row.dy - 1) - PyRound(s[3])
                 ELSE (row.ly + row.dy - 1) - PyRound(s[4])

C1_InRectangle(row, s, d, y, x) ==
    /\ C1_XLow(row, s, d) <= x /\ x <= C1_XHigh(row, s, d)
    /\ C1_YLow(row, s) <= y /\ y <= C1_YHigh(row, s)

C1_Flags(s, d, y, x) ==
    [k \in 1..Len(env.bpixtab) |->
        IF BpixRowMatches(env.bpixtab[k])
           /\ C1_InRectangle(env.bpixtab[k], s, d, y, x)
        THEN env.bpixtab[k].dq ELSE 0]

\* C1: updateDQArray ORs the flag of every matching row into exactly the
\* pixels of its rectangle, whose bounds are the row's bounds minus the
\* shift envelope (max from the lower and min from the upper bound when
\* max >= 0, else min from the lower and max from the upper bound), plus
\* the rounded Doppler envelope and x_offset on the dispersion axis, clipped
\* to the array.  With zero envelopes it is the row's own rectangle moved by
\* x_offset; for lx=10, ly=20, dx=5, dy=5, shifts (-2,3,-1,1) and Doppler
\* (-0.5,0.5) the bounds are y: [19,25], x: [10-3+round(-0.5), 14+2+round(0.5)].
C1_SmearedRectangle ==
    /\ IsUpdate =>
         /\ ret.status = "ok"
         /\ \A y \in DOMAIN dq_array : \A x \in DOMAIN dq_array[y] :
              dq_array[y][x] =
                  BitOr(dq_before[y][x],
                        OrSeq(C1_Flags(call.minmax_shifts,
                                       call.minmax_doppler, y, x)))
    /\ (IsUpdate /\ call.minmax_shifts = <<0, 0, 0, 0>>
                 /\ call.minmax_doppler = <<0, 0>>) =>
         \A y \in DOMAIN dq_array : \A x \in DOMAIN dq_array[y] :
            dq_array[y][x] =
                BitOr(dq_before[y][x],
                      OrSeq([k \in 1..Len(env.bpixtab) |->
                          LET row == env.bpixtab[k]
                          IN  IF /\ BpixRowMatches(row)
                                 /\ row.lx + env.info.x_offset <= x
                                 /\ x <= row.lx + row.dx - 1 + env.info.x_offset
                                 /\ row.ly <= y
                                 /\ y <= row.ly + row.dy - 1
                              THEN row.dq ELSE 0]))
    /\ ShiftedLy(20, <<-4, 6, -2, 2>>) = 19
    /\ ShiftedUy(20, 5, <<-4, 6, -2, 2>>) = 25
    /\ ShiftedLx(10, <<-4, 6, -2, 2>>, <<-1, 1>>) = 10 - 3 + PyRound(-1)
    /\ ShiftedUx(10, 5, <<-4, 6, -2, 2>>, <<-1, 1>>) = 14 + 2 + PyRound(1)

\* two matching rows, the max < 0 branch in dispersion and the max >= 0
\* branch in cross-dispersion, a pixel flagged by both rows, a pixel left alone
C1_Witness ==
    /\ IsUpdate
    /\ env.info.segment = "FUVA" /\ env.info.x_offset = 1
    /\ Len(env.bpixtab) = 3
    /\ call.minmax_shifts = <<-2, -1, -1, 2>>
    /\ call.minmax_doppler = <<-1, 1>>
    /\ \E y \in DOMAIN dq_array : \E x \in DOMAIN dq_array[y] :
          /\ dq_before[y][x] = 0
          /\ dq_array[y][x] = 6
    /\ \E y \in DOMAIN dq_array : \E x \in DOMAIN dq_array[y] :
          /\ dq_before[y][x] = 10
          /\ dq_array[y][x] = 14
    /\ \E y \in DOMAIN dq_array : \E x \in DOMAIN dq_array[y] :
          dq_array[y][x] = 0

\* C6: when no row of the bad pixel table matches the segment filter,
\* updateDQArray returns normally, prints no warning and changes no pixel.
C6_NoMatchingBpixRow ==
    (IsUpdate /\ \A k \in 1..Len(env.bpixtab) : ~BpixRowMatches(env.bpixtab[k]))
        => /\ ret.status = "ok"
           /\ log = <<>>
           /\ dq_array = dq_before

C6_Witness ==
    /\ IsUpdate
    /\ Len(env.bpixtab) = 1
    /\ env.info.segment = "FUVA"
    /\ env.bpixtab[1].segment = "FUVB"
    /\ call.minmax_shifts = <<-2, 1, 0, 2>>
    /\ ret.status = "ok"
    /\ dq_array = dq_before

(***************************************************************************)
(* flagOutsideActiveArea                                                   *)
(***************************************************************************)
\* a Python slice bound on an axis of length n: a negative bound counts
\* from the end, and every bound is clipped to 0..n
SliceBound(i, n) == IF i < 0 THEN Max(i + n, 0) ELSE Min(i, n)

\* j is an index of the slice [start:stop] of an axis of length n
InSlice(j, start, stop, n) ==
    SliceBound(start, n) <= j /\ j < SliceBound(stop, n)

\* a mutant of OrFlag: the flag replaces the pixel's value
OrFlag_assign(value, flag) == flag

\* a mutant of OrFlag: the flag is added to the pixel's value
OrFlag_add(value, flag) == value + flag

\* one pixel of dq_array |= flag, and of N.bitwise_or (dq_array, temp)
OrFlag(value, flag) == BitOr(value, flag)

flagOutsideActiveArea(dq, segment, brftab, data, minmax_shifts, minmax_doppler) ==
    IF segment \notin FUVSegments THEN Done(dq, <<>>, {})
    ELSE
    LET area == activeArea(segment, brftab, data)
        ny == NY(dq)
        nx == NX(dq)
        b_left == area.value[3] - PyRound(minmax_shifts[1])
                      + PyRound(minmax_doppler[2])
        b_right == area.value[4] - PyRound(minmax_shifts[2])
                      + PyRound(minmax_doppler[1])
        b_low == area.value[1] - PyRound(minmax_shifts[3])
        b_high == area.value[2] - PyRound(minmax_shifts[4])
        Flagged(y, x) ==
            \/ b_low >= 0 /\ InSlice(y, 0, b_low, ny)
            \/ b_high < ny - 1 /\ InSlice(y, b_high + 1, ny, ny)
            \/ b_left >= 0 /\ InSlice(x, 0, b_left, nx)
            \/ b_right < nx - 1 /\ InSlice(x, b_right + 1, nx, nx)
    IN  IF area.status # "ok"
        THEN Failed(area.status, area.msg, dq, area.log, area.opened)
        ELSE Done([y \in DOMAIN dq |->
                      [x \in DOMAIN dq[y] |->
                          IF Flagged(y, x)
                          THEN OrFlag(dq[y][x], DQ_OUT_OF_BOUNDS)
                          ELSE dq[y][x]]],
                  area.log, area.opened)

(***************************************************************************)
(* flagOutOfBounds.  The arguments of a call are one record a:             *)
(*   phdr           primary header; the key "subarray" may be absent       *)
(*   hdr            extension header: "nsubarry" may be absent; hdr.sub    *)
(*                  maps a subarray number i to the values of corner<i>x,  *)
(*                  corner<i>y, size<i>x, size<i>y, where it has them      *)
(*   stim_param     lists x0, xslope, y0, yslope (x0, y0 in halves)        *)
(*   info, switches, brftab, geofile, minmax_shifts, minmax_doppler        *)
(* Subarray limits are kept in halves, since tempcorr makes them floats.   *)
(***************************************************************************)
H(i) == 2 * i

\* line 711: hdr.get ("nsubarry", 0)
oobNsubarrays(a) ==
    IF "nsubarry" \in DOMAIN a.hdr THEN a.hdr.nsubarry ELSE 0

\* lines 719-725
oobIndices(a) ==
    IF a.info.detector = "FUV"
    THEN [k \in 1..4 |-> (k - 1) + (IF a.phdr.segment = "FUVB" THEN 4 ELSE 0)]
    ELSE [k \in 1..oobNsubarrays(a) |-> k - 1]

\* lines 736-742
oobDx(a) == PyRound(a.minmax_shifts[1] - a.minmax_doppler[2])
oobDy(a) == PyRound(a.minmax_shifts[3])
oobXwidth(a) ==
    PyRound(a.minmax_shifts[2] - a.minmax_shifts[1]
                + a.minmax_doppler[2] - a.minmax_doppler[1])
oobYwidth(a) == PyRound(a.minmax_shifts[4] - a.minmax_shifts[3])

\* a mutant of oobSkipped: a subarray of non-positive size is kept
oobSkipped_fullSizeOnly(a, s) ==
    \/ a.info.detector = "FUV" /\ <<s.sizey, s.sizex>> = <<FUV_Y, FUV_X>>
    \/ a.info.detector = "NUV" /\ <<s.sizey, s.sizex>> = <<NUV_Y, NUV_X>>

\* lines 754-759: the subarrays that are skipped
oobSkipped(a, s) ==
    \/ s.sizex <= 0 \/ s.sizey <= 0
    \/ a.info.detector = "FUV" /\ <<s.sizey, s.sizex>> = <<FUV_Y, FUV_X>>
    \/ a.info.detector = "NUV" /\ <<s.sizey, s.sizex>> = <<NUV_Y, NUV_X>>

\* lines 760-765
oobSub(a, s) ==
    [x0 |-> H(s.cornerx), y0 |-> H(s.cornery),
     x1 |-> H(s.cornerx + s.sizex - oobXwidth(a)),
     y1 |-> H(s.cornery + s.sizey - oobYwidth(a))]

\* lines 745-766: the list of subarray locations
oobNominal(a) ==
    LET indices == oobIndices(a)
        Kept(i) == ~oobSkipped(a, a.hdr.sub[i])
        kept == SelectSeq(indices, Kept)
    IN  [k \in 1..Len(kept) |-> oobSub(a, a.hdr.sub[kept[k]])]

\* lines 767-778: one full-size "subarray" when the list is empty
oobFullSize(a) ==
    IF a.info.detector = "FUV"
    THEN [x0 |-> 0, y0 |-> 0, x1 |-> H(FUV_X), y1 |-> H(FUV_Y)]
    ELSE [x0 |-> 0, y0 |-> 0, x1 |-> H(NUV_X), y1 |-> H(NUV_Y)]

\* a mutant of oobSubarrays: no full-size "subarray" is created
oobSubarrays_nominalOnly(a) == oobNominal(a)

\* lines 767-778
oobSubarrays(a) ==
    IF oobNominal(a) = <<>> THEN <<oobFullSize(a)>> ELSE oobNominal(a)

\* lines 805-817: the correction for thermal distortion (slopes are whole)
oobThermal(a, sub) ==
    LET xintercept == a.stim_param.x0[1]
        xslope == a.stim_param.xslope[1]
        yintercept == a.stim_param.y0[1]
        yslope == a.stim_param.yslope[1]
    IN  [x0 |-> xintercept + sub.x0 * xslope,
         y0 |-> yintercept + sub.y0 * yslope,
         x1 |-> xintercept + (sub.x1 - H(1)) * xslope + H(1),
         y1 |-> yintercept + (sub.y1 - H(1)) * yslope + H(1)]

\* lines 785-817
oobCorrected(a) ==
    IF a.switches.tempcorr = "PERFORM"
    THEN [k \in DOMAIN oobSubarrays(a) |-> oobThermal(a, oobSubarrays(a)[k])]
    ELSE oobSubarrays(a)

\* line 830: the subarrays for the stims are outside the active area
oobOutside(sub, area) == sub.y1 < H(area[1]) \/ sub.y0 > H(area[2])

\* a float used as a slice bound is truncated toward zero
SliceInt(h) == IF h >= 0 THEN h \div 2 ELSE -((-h) \div 2)

\* lines 906-920: the pixels clearSubarray sets to DQ_OK
clearSubarrayClears(ny, nx, sub, dx, dy, x_offset, y, x) ==
    LET x0 == Max(sub.x0 + H(x_offset) - H(dx), 0)
        y0 == Max(sub.y0 - H(dy), 0)
        x1 == Min(sub.x1 + H(x_offset) - H(dx), H(nx))
        y1 == Min(sub.y1 - H(dy), H(ny))
    IN  /\ InSlice(y, SliceInt(y0), SliceInt(y1), ny)
        /\ InSlice(x, SliceInt(x0), SliceInt(x1), nx)

\* a mutant of clearSubarray: nothing is cleared
clearSubarray_nothing(temp, sub, dx, dy, x_offset) == temp

\* lines 906-920
clearSubarray(temp, sub, dx, dy, x_offset) ==
    [y \in DOMAIN temp |->
        [x \in DOMAIN temp[y] |->
            IF clearSubarrayClears(NY(temp), NX(temp), sub, dx, dy,
                                   x_offset, y, x)
            THEN DQ_OK ELSE temp[y][x]]]

\* lines 824-832: temp after the subarrays outside the active area, taken
\* in the order of the list, have been cleared
RECURSIVE oobClearOutside(_, _, _, _, _)
oobClearOutside(a, temp, subs, area, k) ==
    IF k > Len(subs) THEN temp
    ELSE oobClearOutside(a,
             IF oobOutside(subs[k], area)
             THEN clearSubarray(temp, subs[k], oobDx(a), oobDy(a),
                                a.info.x_offset)
             ELSE temp,
             subs, area, k + 1)

\* lines 833-854: the subarrays counted in nfound, in the order of the list
oobFound(subs, area) ==
    LET Inside(sub) == ~oobOutside(sub, area) IN SelectSeq(subs, Inside)

\* line 854 and lines 836-843: save_sub and the edge arrays are assigned
\* in every pass of the loop, so they are those of the last subarray found
oobSaved(found) == found[Len(found)]

\* lines 995-1006 of getGeoData: the X and Y extensions must agree
getGeoDataConsistent(geofile) ==
    /\ geofile.x_hdu.origin_x = geofile.y_hdu.origin_x
    /\ geofile.x_hdu.origin_y = geofile.y_hdu.origin_y
    /\ geofile.x_hdu.xbin = geofile.y_hdu.xbin
    /\ geofile.x_hdu.ybin = geofile.y_hdu.ybin

\* lines 895-904, for one element of each array (in halves)
applyOffsetsLeft(x_left, dx, x_offset) ==
    LET v == x_left + H(x_offset) - H(dx) IN IF v < 0 THEN 0 ELSE v
applyOffsetsRight(x_right, nx, dx, x_offset) ==
    LET v == x_right + H(x_offset) - H(dx)
    IN  IF v > H(nx - 1) THEN H(nx - 1) ELSE v

\* ccos.geocorrection, ccos.interp1d and ccos.clear_rows, for a geofile
\* whose X and Y offset images are constant (x_hdu.data, y_hdu.data, whole
\* pixels): each edge moves by the offset, its interpolation onto the pixel
\* grid is constant, and a pixel is cleared when it lies between the lower
\* and upper edge of its column and the left and right edge of its row.
\* An edge with no sample keeps the values the arrays were created with
\* (the pixel index, lines 850-853).
geoEdges(a, sub, y, x) ==
    LET cx == H(a.geofile.x_hdu.data)
        cy == H(a.geofile.y_hdu.data)
    IN  [y_lower |-> IF sub.x1 > sub.x0 THEN sub.y0 - cy ELSE H(x),
         y_upper |-> IF sub.x1 > sub.x0 THEN (sub.y1 - H(1)) - cy ELSE H(x),
         x_left |-> IF sub.y1 > sub.y0 THEN sub.x0 - cx ELSE H(y),
         x_right |-> IF sub.y1 > sub.y0 THEN (sub.x1 - H(1)) - cx ELSE H(y)]

\* lines 883-888
clear_rowsClears(a, ny, nx, sub, y, x) ==
    LET e == geoEdges(a, sub, y, x)
        y_lower == applyOffsetsLeft(e.y_lower, oobDy(a), 0)
        y_upper == applyOffsetsRight(e.y_upper, ny, oobDy(a), 0)
        x_left == applyOffsetsLeft(e.x_left, oobDx(a), a.info.x_offset)
        x_right == applyOffsetsRight(e.x_right, nx, oobDx(a), a.info.x_offset)
    IN  /\ y_lower <= H(y) /\ H(y) <= y_upper
        /\ x_left <= H(x) /\ H(x) <= x_right

WARN_STIM == "in flagOutOfBounds, more stim_param than expected"
WARN_NONE_FOUND == "in flagOutOfBounds, there should be at least one full-size 'subarray'"
WARN_MANY_FOUND == "in flagOutOfBounds, more subarrays than expected"

\* lines 780-891: the scratch array temp as it is OR-ed into dq_array
oobTemp(a, dq, area) ==
    LET subs == oobCorrected(a)
        found == oobFound(subs, area)
        cleared == oobClearOutside(a, Full(NY(dq), NX(dq), DQ_OUT_OF_BOUNDS),
                                   subs, area, 1)
    IN  IF a.switches.geocorr = "PERFORM"
        THEN [y \in DOMAIN dq |->
                 [x \in DOMAIN dq[y] |->
                     IF clear_rowsClears(a, NY(dq), NX(dq), oobSaved(found),
                                         y, x)
                     THEN DQ_OK ELSE cleared[y][x]]]
        ELSE IF found # <<>>
        THEN clearSubarray(cleared, oobSaved(found), oobDx(a), oobDy(a),
                           a.info.x_offset)
        ELSE cleared

\* lines 855-859
oobCountWarnings(found) ==
    (IF Len(found) = 0 THEN <<WARN_NONE_FOUND>> ELSE <<>>)
        \o (IF Len(found) > 1 THEN <<WARN_MANY_FOUND>> ELSE <<>>)

\* lines 791-793
oobStimWarnings(a) ==
    IF a.switches.tempcorr = "PERFORM" /\ Len(a.stim_param.x0) # 1
    THEN <<WARN_STIM>> ELSE <<>>

\* the scratch array is OR-ed into the caller's array (line 893)
oobMerge(dq, temp) ==
    [y \in DOMAIN dq |-> [x \in DOMAIN dq[y] |-> OrFlag(dq[y][x], temp[y][x])]]

\* a mutant of oobNotWindowed: the number of subarrays is not looked at
oobNotWindowed_noCount(a) ==
    \/ "subarray" \notin DOMAIN a.phdr
    \/ ~a.phdr.subarray

\* lines 706-713: the exposure is not subarray-windowed
oobNotWindowed(a) ==
    \/ "subarray" \notin DOMAIN a.phdr
    \/ ~a.phdr.subarray
    \/ oobNsubarrays(a) < 1

\* a mutant of oobCallerArray: temp is the caller's array, not a copy, and
\* the caller sees it filled with the out of bounds flag
oobCallerArray_alias(dq) == Full(NY(dq), NX(dq), DQ_OUT_OF_BOUNDS)

\* lines 727, 782: temp is a copy, so the caller's array is as it was
\* while temp is filled and cleared
oobCallerArray(dq) == dq

flagOutOfBounds(a, dq) ==
    IF oobNotWindowed(a) THEN Done(dq, <<>>, {})
    ELSE IF \E k \in DOMAIN oobIndices(a) :
                oobIndices(a)[k] \notin DOMAIN a.hdr.sub
    THEN Failed("KeyError", "corner", dq, <<>>, {})
    ELSE IF a.switches.tempcorr = "PERFORM" /\ Len(a.stim_param.x0) = 0
    THEN Failed("IndexError", "list index out of range", oobCallerArray(dq),
                oobStimWarnings(a), {})
    ELSE
    LET area == activeArea(a.info.segment, "brftab", a.brftab)
        found == oobFound(oobCorrected(a), area.value)
        warnings == oobStimWarnings(a) \o area.log \o oobCountWarnings(found)
    IN  IF area.status # "ok"
        THEN Failed(area.status, area.msg, oobCallerArray(dq),
                    oobStimWarnings(a) \o area.log, area.opened)
        ELSE IF a.switches.geocorr = "PERFORM"
                 /\ ~getGeoDataConsistent(a.geofile)
        THEN Failed("RuntimeError", "Inconsistent keywords in GEOFILE",
                    oobCallerArray(dq), warnings,
                    area.opened \cup {"geofile"})
        ELSE IF a.switches.geocorr = "PERFORM" /\ found = <<>>
        THEN Failed("UnboundLocalError", "x_lower", oobCallerArray(dq),
                    warnings, area.opened \cup {"geofile"})
        ELSE Done(oobMerge(dq, oobTemp(a, dq, area.value)), warnings,
                  area.opened \cup (IF a.switches.geocorr = "PERFORM"
                                    THEN {"geofile"} ELSE {}))

(***************************************************************************)
(* Specification Spec: the three flagging functions called in any order,  *)
(* any number of times, on the array of one exposure.                      *)
(***************************************************************************)
BrfRow(segment, a_low, a_high, a_left, a_right) ==
    [segment |-> segment, a_low |-> a_low, a_high |-> a_high,
     a_left |-> a_left, a_right |-> a_right]

BrfTables ==
    { << BrfRow("FUVA", 1, DetSize - 1, 0, DetSize),
         BrfRow("FUVB", 2, DetSize - 1, 1, DetSize - 1) >>,
      << BrfRow(STRING_WILDCARD, 1, DetSize - 1, 1, DetSize),
         BrfRow("FUVA", 0, 1, 0, 2), BrfRow("FUVB", 0, 1, 0, 2) >>,
      << BrfRow("NUVA", 0, DetSize - 1, 0, DetSize - 1) >> }

Envelopes ==
    { [minmax_shifts |-> <<0, 0, 0, 0>>, minmax_doppler |-> <<0, 0>>],
      [minmax_shifts |-> <<-2, -1, -1, 2>>, minmax_doppler |-> <<-1, 1>>] }

Sub(cornerx, cornery, sizex, sizey) ==
    [cornerx |-> cornerx, cornery |-> cornery, sizex |-> sizex,
     sizey |-> sizey]
NoSub == Sub(0, 0, 0, 0)

\* subarray numbers start at Base for the segment
Base(segment) == IF segment = "FUVB" THEN 4 ELSE 0

Slots(segment, subs) ==
    [i \in Base(segment)..(Base(segment) + Len(subs) - 1) |->
        subs[i - Base(segment) + 1]]

DetX(segment) == IF DetectorOf(segment) = "FUV" THEN FUV_X ELSE NUV_X
DetY(segment) == IF DetectorOf(segment) = "FUV" THEN FUV_Y ELSE NUV_Y

\* the subarrays of an exposure: a window on the spectrum and one on a stim;
\* the whole detector; two windows; a stim window alone; a keyword missing
SubarrayLists(segment) ==
    IF DetectorOf(segment) = "FUV"
    THEN { << Sub(1, 1, 2, 2), Sub(0, 0, 1, 1), NoSub, NoSub >>,
           << Sub(0, 0, DetX(segment), DetY(segment)), NoSub, NoSub, NoSub >>,
           << Sub(0, 1, 2, 2), NoSub, Sub(2, 0, 2, DetY(segment)), NoSub >>,
           << Sub(0, 0, 1, 1), NoSub, NoSub, NoSub >>,
           << Sub(1, 1, 2, 2), NoSub, NoSub >> }
    ELSE { << Sub(1, 1, 2, 2) >>,
           << Sub(0, 0, DetX(segment), DetY(segment)) >>,
           << Sub(0, 1, 2, 2), Sub(2, 0, 1, DetY(segment)) >> }

\* the extension headers of a windowed exposure; the last lacks the
\* keywords of its last subarray
Hdrs(segment) ==
    { [nsubarry |-> Len(subs), sub |-> Slots(segment, subs)] :
          subs \in SubarrayLists(segment) }
    \cup (IF DetectorOf(segment) = "NUV"
          THEN { [nsubarry |-> 2, sub |-> Slots(segment, <<Sub(1, 1, 2, 2)>>)] }
          ELSE {})
    \cup { [nsubarry |-> 0, sub |-> Slots(segment, <<>>)],
           [sub |-> Slots(segment, <<>>)] }

DefaultHdr(segment) == [sub |-> Slots(segment, <<>>)]

\* headers: what is not read is left at a default
Headers(segment) ==
    { [phdr |-> [segment |-> segment], hdr |-> DefaultHdr(segment)],
      [phdr |-> [segment |-> segment, subarray |-> FALSE],
       hdr |-> DefaultHdr(segment)] }
    \cup { [phdr |-> [segment |-> segment, subarray |-> TRUE], hdr |-> h] :
              h \in Hdrs(segment) }

StimParams ==
    { [x0 |-> <<1>>, xslope |-> <<1>>, y0 |-> <<-1>>, yslope |-> <<1>>],
      [x0 |-> <<0, 2>>, xslope |-> <<1, 1>>, y0 |-> <<2, 0>>,
       yslope |-> <<1, 1>>],
      [x0 |-> <<>>, xslope |-> <<>>, y0 |-> <<>>, yslope |-> <<>>] }

GeoHdu(data, origin_x, origin_y, xbin, ybin) ==
    [data |-> data, origin_x |-> origin_x, origin_y |-> origin_y,
     xbin |-> xbin, ybin |-> ybin]

Geofiles ==
    { [x_hdu |-> GeoHdu(0, 0, 0, 1, 1), y_hdu |-> GeoHdu(0, 0, 0, 1, 1)],
      [x_hdu |-> GeoHdu(1, 0, 0, 1, 1), y_hdu |-> GeoHdu(-1, 0, 0, 1, 1)],
      [x_hdu |-> GeoHdu(0, 0, 0, 1, 2), y_hdu |-> GeoHdu(0, 0, 0, 1, 1)] }

\* the switches with the files they make the code read; what is not read
\* is left at a default
DefaultStim == CHOOSE p \in StimParams : Len(p.x0) = 1
DefaultGeofile == CHOOSE g \in Geofiles : g.x_hdu = g.y_hdu
DefaultBrftab == CHOOSE t \in BrfTables : Len(t) = 1

Thermal ==
    { [tempcorr |-> "OMIT", stim_param |-> DefaultStim] }
    \cup { [tempcorr |-> "PERFORM", stim_param |-> p] : p \in StimParams }
Geometric ==
    { [geocorr |-> "OMIT", geofile |-> DefaultGeofile] }
    \cup { [geocorr |-> "PERFORM", geofile |-> g] : g \in Geofiles }

\* what flagOutOfBounds reads beyond info, brftab and the envelopes
Windowings(segment) ==
    { [phdr |-> h.phdr, hdr |-> h.hdr, stim_param |-> t.stim_param,
       switches |-> [tempcorr |-> t.tempcorr, geocorr |-> g.geocorr,
                     igeocorr |-> g.geocorr],
       geofile |-> g.geofile] :
         h \in { h \in Headers(segment) : "subarray" \in DOMAIN h.phdr
                                          /\ h.phdr.subarray },
         t \in Thermal, g \in Geometric }
    \cup
    { [phdr |-> h.phdr, hdr |-> h.hdr, stim_param |-> DefaultStim,
       switches |-> [tempcorr |-> tempcorr, geocorr |-> "OMIT",
                     igeocorr |-> "OMIT"],
       geofile |-> DefaultGeofile] :
         h \in { h \in Headers(segment) : ~("subarray" \in DOMAIN h.phdr
                                            /\ h.phdr.subarray) },
         tempcorr \in {"OMIT", "PERFORM"} }

Exposure(segment, x_offset, w, brftab, e) ==
    [info |-> [segment |-> segment, detector |-> DetectorOf(segment),
               x_offset |-> x_offset],
     phdr |-> w.phdr, hdr |-> w.hdr, stim_param |-> w.stim_param,
     switches |-> w.switches, geofile |-> w.geofile,
     bpixtab |-> CHOOSE b \in BpixTables : Len(b) = 3,
     brftab |-> brftab,
     minmax_shifts |-> e.minmax_shifts,
     minmax_doppler |-> e.minmax_doppler]

ExposuresOf(segment) ==
    { Exposure(segment, x_offset, w, brftab, e) :
         x_offset \in {0, 1}, w \in Windowings(segment),
         brftab \in (IF DetectorOf(segment) = "FUV" THEN BrfTables
                     ELSE {DefaultBrftab}),
         e \in Envelopes }

Exposures == UNION { ExposuresOf(segment) : segment \in {"FUVA", "FUVB", "NUVA"} }

Init ==
    /\ env \in Exposures
    /\ dq_array \in InputArrays(ArrayNY(env.info.segment),
                                ArrayNX(env.info.segment, env.info.x_offset))
    /\ dq_before = dq_array
    /\ call = NoCall
    /\ ret = NoRet
    /\ log = <<>>
    /\ opened = {}

CallUpdateDQArray ==
    /\ call' = [op |-> "updateDQArray", minmax_shifts |-> env.minmax_shifts,
                minmax_doppler |-> env.minmax_doppler]
    /\ Ended(updateDQArray("bpixtab", env.bpixtab, env.info, dq_array,
                           env.minmax_shifts, env.minmax_doppler))
    /\ UNCHANGED env

CallFlagOutOfBounds ==
    /\ call' = [op |-> "flagOutOfBounds"]
    /\ Ended(flagOutOfBounds(env, dq_array))
    /\ UNCHANGED env

CallFlagOutsideActiveArea ==
    /\ call' = [op |-> "flagOutsideActiveArea"]
    /\ Ended(flagOutsideActiveArea(dq_array, env.info.segment, "brftab",
                                   env.brftab, env.minmax_shifts,
                                   env.minmax_doppler))
    /\ UNCHANGED env

Next ==
    \/ CallUpdateDQArray
    \/ CallFlagOutOfBounds
    \/ CallFlagOutsideActiveArea

Spec == Init /\ [][Next]_vars

(***************************************************************************)
(* Claims about the flagging functions (specification Spec).               *)
(***************************************************************************)
IsOutOfBounds == call.op = "flagOutOfBounds"
IsOutsideActiveArea == call.op = "flagOutsideActiveArea"

\* C2: calling updateDQArray twice in a row with identical inputs leaves the
\* array that calling it once leaves, and so for flagOutOfBounds: the second
\* of two consecutive calls changes no pixel.
C2_Idempotent ==
    [][ /\ (IsUpdate /\ call'.op = "updateDQArray") => dq_array' = dq_array
        /\ (IsOutOfBounds /\ call'.op = "flagOutOfBounds")
              => dq_array' = dq_array ]_vars

\* flagOutOfBounds is called on an array it has flagged before (on NUV
\* nothing else sets DQ_OUT_OF_BOUNDS) and leaves it as it is
C2_Witness ==
    /\ IsOutOfBounds
    /\ env.info.segment = "NUVA"
    /\ ret.status = "ok"
    /\ dq_before = dq_array
    /\ \E y \in DOMAIN dq_array : \E x \in DOMAIN dq_array[y] :
          dq_array[y][x] = DQ_OUT_OF_BOUNDS
    /\ \E y \in DOMAIN dq_array : \E x \in DOMAIN dq_array[y] :
          dq_array[y][x] = 0

\* every bit set in old is set in new
KeepsBits(old, new) == BitOr(old, new) = new

\* C3: across any sequence of updateDQArray, flagOutOfBounds and
\* flagOutsideActiveArea calls every bit set in a pixel before a call is
\* still set in that pixel after it.
C3_FlagsAccumulate ==
    [][ \A y \in DOMAIN dq_array : \A x \in DOMAIN dq_array[y] :
            KeepsBits(dq_array[y][x], dq_array'[y][x]) ]_vars

C3_Witness ==
    /\ IsOutOfBounds
    /\ ret.status = "ok"
    /\ \E y \in DOMAIN dq_array : \E x \in DOMAIN dq_array[y] :
          /\ dq_before[y][x] = 14
          /\ dq_array[y][x] = 14 + DQ_OUT_OF_BOUNDS
    /\ \E y \in DOMAIN dq_array : \E x \in DOMAIN dq_array[y] :
          /\ dq_before[y][x] = 10
          /\ dq_array[y][x] = 10

\* C4: when the primary header has no "subarray" key, or its value is
\* false, or nsubarry in the extension header is less than 1 (or absent),
\* flagOutOfBounds changes no pixel, opens no reference file and prints no
\* warning.
C4_NotWindowedNoOp ==
    (IsOutOfBounds /\ (\/ "subarray" \notin DOMAIN env.phdr
                       \/ ~env.phdr.subarray
                       \/ "nsubarry" \notin DOMAIN env.hdr
                       \/ env.hdr.nsubarry < 1))
        => /\ ret.status = "ok"
           /\ dq_array = dq_before
           /\ opened = {}
           /\ log = <<>>

C4_Witness ==
    /\ IsOutOfBounds
    /\ "subarray" \in DOMAIN env.phdr /\ env.phdr.subarray
    /\ "nsubarry" \in DOMAIN env.hdr /\ env.hdr.nsubarry = 0
    /\ env.info.segment = "FUVB"
    /\ env.switches.tempcorr = "PERFORM"
    /\ dq_array = dq_before
    /\ ret.status = "ok"

\* C5: whenever updateDQArray, flagOutOfBounds or flagOutsideActiveArea
\* ends with an error, the caller's array is, pixel for pixel, what it was
\* before the call.
C5_NoPartialArrayOnFailure ==
    (call.op # "none" /\ ret.status # "ok") => dq_array = dq_before

\* flagOutOfBounds fails for want of an active area row, after it has
\* filled the scratch array, on an array that already carries flags
C5_Witness ==
    /\ IsOutOfBounds
    /\ ret.status = "RuntimeError" /\ ret.msg = MSG_NO_ROW
    /\ dq_array = dq_before
    /\ \E y \in DOMAIN dq_array : \E x \in DOMAIN dq_array[y] :
          dq_array[y][x] = 14

(***************************************************************************)
(* Floating-point values of the dispersion and statistics functions are   *)
(* held as exact fractions n/d in lowest terms (d > 0); NonFinite stands   *)
(* for inf and nan, the results numpy gives where a fraction has none.     *)
(***************************************************************************)
\* Euclid's algorithm on two non-negative integers, each operand evaluated
\* once
RECURSIVE Gcd(_, _)
Gcd(a, b) ==
    CHOOSE g \in { IF b0 = 0 THEN a0 ELSE Gcd(b0, a0 % b0) :
                      a0 \in {a}, b0 \in {b} } : TRUE

Abs(i) == IF i < 0 THEN -i ELSE i

Frac(n, d) ==
    LET g == Gcd(Abs(n), Abs(d))
        s == IF d < 0 THEN -1 ELSE 1
    IN [n |-> (s * n) \div g, d |-> (s * d) \div g]

R(i) == [n |-> i, d |-> 1]
NonFinite == [n |-> 0, d |-> 0]
IsFinite(r) == r.d # 0

\* sums and products are formed over the least common denominator and
\* after cancelling, which keeps the intermediate integers small
AddFinite(a, b, sign) ==
    LET g == Gcd(a.d, b.d)
    IN Frac(a.n * (b.d \div g) + sign * b.n * (a.d \div g),
            (a.d \div g) * b.d)
MulFinite(a, b) ==
    LET g1 == Gcd(Abs(a.n), b.d)
        g2 == Gcd(Abs(b.n), a.d)
    IN Frac((a.n \div g1) * (b.n \div g2), (a.d \div g2) * (b.d \div g1))

AddValues(a, b) ==
    IF IsFinite(a) /\ IsFinite(b) THEN AddFinite(a, b, 1) ELSE NonFinite
SubValues(a, b) ==
    IF IsFinite(a) /\ IsFinite(b) THEN AddFinite(a, b, -1) ELSE NonFinite
MulValues(a, b) ==
    IF IsFinite(a) /\ IsFinite(b) THEN MulFinite(a, b) ELSE NonFinite
\* a / b in numpy: a zero divisor gives inf or nan
DivValues(a, b) ==
    IF IsFinite(a) /\ IsFinite(b) /\ b.n # 0
    THEN MulFinite(a, Frac(b.d, b.n))
    ELSE NonFinite

\* the four operations; each operand is evaluated once, then combined
RAdd(a, b) == CHOOSE r \in { AddValues(a0, b0) : a0 \in {a}, b0 \in {b} } : TRUE
RSub(a, b) == CHOOSE r \in { SubValues(a0, b0) : a0 \in {a}, b0 \in {b} } : TRUE
RMul(a, b) == CHOOSE r \in { MulValues(a0, b0) : a0 \in {a}, b0 \in {b} } : TRUE
RDiv(a, b) == CHOOSE r \in { DivValues(a0, b0) : a0 \in {a}, b0 \in {b} } : TRUE
RAbs(a) == [n |-> Abs(a.n), d |-> a.d]
\* a < b; every comparison with nan is false
RLess(a, b) == IsFinite(a) /\ IsFinite(b) /\ a.n * b.d < b.n * a.d
RMax(a, b) == IF RLess(a, b) THEN b ELSE a

(***************************************************************************)
(* evalDisp, evalDerivDisp: one element of x at a time.                    *)
(***************************************************************************)
MSG_FEW_COEFF == "Dispersion relation has too few coefficients"

\* a mutant of TooFewCoefficients: one coefficient is accepted
TooFewCoefficients_one(coeff) == Len(coeff) < 1

\* lines 375-376, 405-406
TooFewCoefficients(coeff) == Len(coeff) < 2

\* a mutant of evalDispLoop: the loop stops before i = 0 and the constant
\* term is lost
RECURSIVE evalDispLoop_skipConstant(_, _, _, _)
evalDispLoop_skipConstant(sum, x_prime, coeff, i) ==
    IF i < 1 THEN sum
    ELSE evalDispLoop_skipConstant(RAdd(RMul(sum, x_prime), R(coeff[i + 1])),
                                   x_prime, coeff, i - 1)

\* lines 382-383: the loop body for i, i-1, ..., 0 (coeff[i] is coeff[i+1]
\* here, sequences being indexed from 1)
RECURSIVE evalDispLoop(_, _, _, _)
evalDispLoop(sum, x_prime, coeff, i) ==
    IF i < 0 THEN sum
    ELSE evalDispLoop(RAdd(RMul(sum, x_prime), R(coeff[i + 1])),
                      x_prime, coeff, i - 1)

\* lines 379-385, for one element x
evalDisp1(x, coeff, delta) ==
    LET ncoeff == Len(coeff)
        x_prime == RSub(x, delta)
    IN evalDispLoop(R(coeff[ncoeff]), x_prime, coeff, ncoeff - 2)

\* a mutant of evalDerivLoop: the loop runs down to n = 0, as evalDisp's does
RECURSIVE evalDerivLoop_toZero(_, _, _, _)
evalDerivLoop_toZero(sum, x_prime, coeff, n) ==
    IF n < 0 THEN sum
    ELSE evalDerivLoop_toZero(RAdd(RMul(sum, x_prime), R(n * coeff[n + 1])),
                              x_prime, coeff, n - 1)

\* lines 412-413: the loop body for n, n-1, ..., 1
RECURSIVE evalDerivLoop(_, _, _, _)
evalDerivLoop(sum, x_prime, coeff, n) ==
    IF n < 1 THEN sum
    ELSE evalDerivLoop(RAdd(RMul(sum, x_prime), R(n * coeff[n + 1])),
                       x_prime, coeff, n - 1)

\* lines 409-415, for one element x
evalDerivDisp1(x, coeff, delta) ==
    LET ncoeff == Len(coeff)
        x_prime == RSub(x, delta)
    IN evalDerivLoop(R((ncoeff - 1) * coeff[ncoeff]), x_prime, coeff,
                     ncoeff - 2)

\* a number or an array of numbers: the elements and whether it is an array
Scalar(r) == [array |-> FALSE, v |-> <<r>>]
Array(rs) == [array |-> TRUE, v |-> rs]

DispOk(value) == [status |-> "ok", msg |-> "", value |-> value]
DispRaise(kind, msg) == [status |-> kind, msg |-> msg, value |-> Array(<<>>)]

\* lines 357-385
evalDisp(x, coeff, delta) ==
    IF TooFewCoefficients(coeff) THEN DispRaise("ValueError", MSG_FEW_COEFF)
    ELSE DispOk([x EXCEPT !.v =
                    [k \in DOMAIN x.v |-> evalDisp1(x.v[k], coeff, delta)]])

\* lines 387-415
evalDerivDisp(x, coeff, delta) ==
    IF TooFewCoefficients(coeff) THEN DispRaise("ValueError", MSG_FEW_COEFF)
    ELSE DispOk([x EXCEPT !.v =
                    [k \in DOMAIN x.v |-> evalDerivDisp1(x.v[k], coeff, delta)]])

(***************************************************************************)
(* evalInvDisp: the call sets up the starting guess, then one step of the  *)
(* model is one pass through the body of "while not done".                 *)
(***************************************************************************)
\* the model follows an iterate while its numerators and denominators stay
\* within RatCap
RatCap == 40

\* the default of tiny, 1.e-8, is 1 / TINY_DEN (line 417)
TINY_DEN == 100000000

\* lines 444-449: x = arange (nelem) for an array, 0. for a number
evalInvDispStart(wavelength) ==
    IF wavelength.array
    THEN Array([k \in DOMAIN wavelength.v |-> R(k - 1)])
    ELSE Scalar(R(0))

\* a mutant of evalInvDispNewX: the step is added without the division by
\* the slope
evalInvDispNewX_noSlope(w, x, coeff, delta) ==
    RAdd(x, RSub(w, evalDisp1(x, coeff, delta)))

\* lines 460-463, for one element: x += (wavelength - wl) / slope
evalInvDispNewX(w, x, coeff, delta) ==
    RAdd(x, RDiv(RSub(w, evalDisp1(x, coeff, delta)),
                 evalDerivDisp1(x, coeff, delta)))

\* line 463 divides by zero: a finite element with a zero slope
ZeroSlope(x, coeff, delta) ==
    \E k \in DOMAIN x.v :
        /\ IsFinite(x.v[k])
        /\ evalDerivDisp1(x.v[k], coeff, delta).n = 0

\* lines 464-465: diff.max() < tiny, where tiny is 1 / tiny_den; diff is
\* never negative, and a nan in diff makes the test false
DiffBelowTiny(x, x_prev, tiny_den) ==
    \A k \in DOMAIN x.v :
        LET diff == RAbs(RSub(x.v[k], x_prev.v[k]))
        IN IsFinite(diff) /\ diff.n <= (diff.d - 1) \div tiny_den

WithinRatCap(x) ==
    \A k \in DOMAIN x.v : Abs(x.v[k].n) <= RatCap /\ x.v[k].d <= RatCap

\* the call is in its loop, with x the current guess
InLoop(wavelength, x) ==
    [status |-> "loop", msg |-> "", value |-> x]

\* lines 456-466: one pass through the loop body.  numpy says whether the
\* arithmetic of a scalar call is numpy's (coeff is a numpy array) or
\* Python's (coeff is a list), which differ in a division by zero.
evalInvDispPass(wavelength, x, coeff, delta, tiny_den, numpy) ==
    LET x_prev == x
        new == [x EXCEPT !.v = [k \in DOMAIN x.v |->
                   evalInvDispNewX(wavelength.v[k], x.v[k], coeff, delta)]]
    IN IF TooFewCoefficients(coeff)
       THEN DispRaise("ValueError", MSG_FEW_COEFF)
       ELSE IF ~x.array /\ ~numpy /\ ZeroSlope(x, coeff, delta)
       THEN DispRaise("ZeroDivisionError", "float division")
       ELSE IF x.v = <<>>
       THEN DispRaise("ValueError", "zero-size array to reduction operation")
       ELSE IF DiffBelowTiny(new, x_prev, tiny_den)
       THEN DispOk(new)
       ELSE IF ~WithinRatCap(new)
       THEN [status |-> "beyond", msg |-> "", value |-> new]
       ELSE InLoop(wavelength, new)

(***************************************************************************)
(* Specification SpecDisp: one call of evalDisp, evalDerivDisp or          *)
(* evalInvDisp, or evalInvDisp of the result of evalDisp, on inputs drawn  *)
(* from small sets.                                                        *)
(***************************************************************************)
MaxCoeff == 1

SeqsOver(S, n) == [1..n -> S]

\* coefficient sequences of 0 to 3 elements, and two cubics
CoeffSeqs ==
    UNION { SeqsOver((-MaxCoeff)..MaxCoeff, n) : n \in 0..3 }
        \cup { <<2, -2, 0, 1>>, <<0, 0, 0, 1>>, <<-6, 1, 1>> }

DispArgs ==
    { Scalar(r) : r \in {R(-1), R(0), R(2), Frac(1, 2)} }
        \cup { Array(<<>>), Array(<<R(0)>>), Array(<<R(2), R(-1)>>),
               Array(<<R(1), Frac(1, 2)>>) }

Deltas == {R(0), R(1)}

\* tiny: the default, and a coarse tolerance of 1/4
TinyDens == {TINY_DEN, 4}

DispNone == [status |-> "none", msg |-> "", value |-> Array(<<>>)]

InitDisp ==
    /\ env \in [coeff : CoeffSeqs, delta : Deltas, tiny_den : TinyDens,
                arg : DispArgs]
    /\ dq_array = NoArray
    /\ dq_before = NoArray
    /\ call = NoCall
    /\ ret = DispNone
    /\ log = <<>>
    /\ opened = {}

CallEvalDisp ==
    /\ call = NoCall
    /\ call' = [op |-> "evalDisp"]
    /\ ret' = evalDisp(env.arg, env.coeff, env.delta)
    /\ UNCHANGED <<env, dq_array, dq_before, log, opened>>

CallEvalDerivDisp ==
    /\ call = NoCall
    /\ call' = [op |-> "evalDerivDisp"]
    /\ ret' = evalDerivDisp(env.arg, env.coeff, env.delta)
    /\ UNCHANGED <<env, dq_array, dq_before, log, opened>>

\* evalInvDisp (env.arg, coeff, delta, tiny), up to the loop
CallEvalInvDisp ==
    /\ call = NoCall
    /\ call' = [op |-> "evalInvDisp", wavelength |-> env.arg, passes |-> 0]
    /\ ret' = InLoop(env.arg, evalInvDispStart(env.arg))
    /\ UNCHANGED <<env, dq_array, dq_before, log, opened>>

\* evalInvDisp (evalDisp (env.arg, coeff, delta), coeff, delta, tiny), up to
\* the loop
CallRoundTrip ==
    LET wl == evalDisp(env.arg, env.coeff, env.delta)
    IN /\ call = NoCall
       /\ call' = [op |-> "roundTrip", wavelength |-> wl.value, passes |-> 0]
       /\ ret' = IF wl.status = "ok"
                 THEN InLoop(wl.value, evalInvDispStart(wl.value))
                 ELSE wl
       /\ UNCHANGED <<env, dq_array, dq_before, log, opened>>

\* the passes are counted 0, 1, 2 and then 3 and 2 by turns: the count tells
\* the first passes from the rest, and every pass is a step that shows
LoopPass ==
    \E numpy \in BOOLEAN :
        /\ ret.status = "loop"
        /\ ret' = evalInvDispPass(call.wavelength, ret.value, env.coeff,
                                  env.delta, env.tiny_den, numpy)
        /\ call' = [call EXCEPT !.passes = IF @ < 3 THEN @ + 1 ELSE 2]
        /\ UNCHANGED <<env, dq_array, dq_before, log, opened>>

NextDisp ==
    \/ CallEvalDisp
    \/ CallEvalDerivDisp
    \/ CallEvalInvDisp
    \/ CallRoundTrip
    \/ LoopPass

SpecDisp == InitDisp /\ [][NextDisp]_vars

\* the relations of the specification with fairness: a line, a constant,
\* a parabola and the two cubics
CoeffSeqsFair ==
    { <<0, 1>>, <<1, -1>>, <<1, 0>>, <<1>>, <<-6, 1, 1>>, <<0, -1, 1>>,
      <<2, -2, 0, 1>>, <<0, 0, 0, 1>> }

InitDispFair ==
    /\ InitDisp
    /\ env.coeff \in CoeffSeqsFair

\* the loop has no other exit than its test: a call in its loop takes its
\* next pass
SpecDispFair == InitDispFair /\ [][NextDisp]_vars /\ WF_vars(LoopPass)

(***************************************************************************)
(* Claims about the dispersion functions (SpecDisp, SpecDispFair).         *)
(***************************************************************************)
IsEvalInvDisp == call.op = "evalInvDisp"
IsRoundTrip == call.op = "roundTrip"

\* the largest difference between the elements of x and of y is below tiny
Within(x, y, tiny_den) ==
    /\ DOMAIN x.v = DOMAIN y.v
    /\ DiffBelowTiny(x, y, tiny_den)

\* C11: evalInvDisp always terminates: for every wavelength and every
\* coefficient sequence of 2 or more elements a call that is in its loop
\* leaves it, with a result or with a failure; it never loops forever.
C11_InversionTerminates ==
    (/\ IsEvalInvDisp
     /\ Len(env.coeff) >= 2
     /\ ret.status = "loop") ~> (ret.status # "loop")

\* C12: for any coefficient sequence of 2 or more elements, any delta and
\* any sampled x, evalInvDisp (evalDisp (x, c, delta), c, delta) returns a
\* value within the tolerance of x: once out of its loop the call has
\* returned, and every element returned is within tiny of the sample.
C12_RoundTrip ==
    (/\ IsRoundTrip
     /\ Len(env.coeff) >= 2
     /\ env.arg.v # <<>>
     /\ ret.status \notin {"loop", "beyond"})
        => /\ ret.status = "ok"
           /\ Within(ret.value, env.arg, env.tiny_den)

\* C12 as amended: the law for a relation of two coefficients with a slope
\* that is not zero.  The first pass lands on the sample, the second finds
\* a step of zero.
C12_RoundTripLinear ==
    (/\ IsRoundTrip
     /\ Len(env.coeff) = 2
     /\ env.coeff[2] # 0
     /\ env.arg.v # <<>>)
        => /\ ret.status \in {"loop", "ok"}
           /\ ret.status = "loop" => call.passes <= 1
           /\ ret.status = "ok" => Within(ret.value, env.arg, env.tiny_den)
           /\ call.passes >= 1 => ret.value = env.arg

\* the round trip of an array through c = [1, -1], delta = 1 has returned
\* the array after two passes
C12_Witness ==
    /\ IsRoundTrip
    /\ env.coeff = <<1, -1>>
    /\ env.delta = R(1)
    /\ env.arg = Array(<<R(2), R(-1)>>)
    /\ call.wavelength = Array(<<R(0), R(3)>>)
    /\ call.passes = 2
    /\ ret.status = "ok"
    /\ ret.value = env.arg

IsTooFew(r) == r.status = "ValueError" /\ r.msg = MSG_FEW_COEFF

\* C14: evalDisp, evalDerivDisp and evalInvDisp fail with ValueError
\* "Dispersion relation has too few coefficients" whenever the coefficient
\* sequence has fewer than 2 elements (evalInvDisp in the first pass of its
\* loop), and never with that error when it has 2 or more.
C14_TooFewCoefficients ==
    /\ call.op \in {"evalDisp", "evalDerivDisp"}
          => (IsTooFew(ret) <=> Len(env.coeff) < 2)
    /\ IsEvalInvDisp
          => /\ Len(env.coeff) < 2
                   => \/ ret.status = "loop" /\ call.passes = 0
                      \/ IsTooFew(ret) /\ call.passes = 1
             /\ Len(env.coeff) >= 2 => ~IsTooFew(ret)
    /\ IsRoundTrip => (IsTooFew(ret) <=> Len(env.coeff) < 2)

\* evalInvDisp has failed in its first pass on a single coefficient
C14_Witness ==
    /\ IsEvalInvDisp
    /\ env.coeff = <<1>>
    /\ env.arg = Scalar(R(2))
    /\ call.passes = 1
    /\ IsTooFew(ret)

RECURSIVE RPow(_, _)
RPow(x, i) == IF i = 0 THEN R(1) ELSE RMul(x, RPow(x, i - 1))

\* the sum over i in lo..hi of w(i) * c[i] * x^(i - shift), c counted from 0
RECURSIVE PowerSum(_, _, _, _, _)
PowerSum(c, x, lo, hi, deriv) ==
    IF lo > hi THEN R(0)
    ELSE RAdd(RMul(R((IF deriv THEN lo ELSE 1) * c[lo + 1]),
                   RPow(x, IF deriv THEN lo - 1 ELSE lo)),
              PowerSum(c, x, lo + 1, hi, deriv))

\* C15: for every coefficient sequence c of n >= 2 elements,
\* evalDisp (x, c, delta) is the sum over i in 0..n-1 of c[i]*(x-delta)^i
\* and evalDerivDisp (x, c, delta) is the sum over i in 1..n-1 of
\* i*c[i]*(x-delta)^(i-1); for n = 2 that is the constant c[1].
C15_PolynomialAndDerivative ==
    LET n == Len(env.coeff)
        xp(k) == RSub(env.arg.v[k], env.delta)
    IN /\ (call.op = "evalDisp" /\ n >= 2)
             => /\ ret.status = "ok"
                /\ ret.value.array = env.arg.array
                /\ DOMAIN ret.value.v = DOMAIN env.arg.v
                /\ \A k \in DOMAIN env.arg.v :
                      ret.value.v[k] = PowerSum(env.coeff, xp(k), 0, n - 1, FALSE)
       /\ (call.op = "evalDerivDisp" /\ n >= 2)
             => /\ ret.status = "ok"
                /\ ret.value.array = env.arg.array
                /\ DOMAIN ret.value.v = DOMAIN env.arg.v
                /\ \A k \in DOMAIN env.arg.v :
                      /\ ret.value.v[k] = PowerSum(env.coeff, xp(k), 1, n - 1, TRUE)
                      /\ n = 2 => ret.value.v[k] = R(env.coeff[2])

\* the slope of 1 - x' + x'^2 at x = 1/2, delta = 1 is -1 + 2 * (-1/2) = -2
C15_Witness ==
    /\ call.op = "evalDerivDisp"
    /\ env.coeff = <<1, -1, 1>>
    /\ env.delta = R(1)
    /\ env.arg = Scalar(Frac(1, 2))
    /\ ret.status = "ok"
    /\ ret.value = Scalar(R(-2))

(***************************************************************************)
(* geometricDistortion and getGeoData.  A geofile has, for each segment,   *)
(* an X and a Y extension; a header keyword may be absent.                 *)
(***************************************************************************)
\* header.get (key, default)
HdrGet(header, key, default) ==
    IF key \in DOMAIN header THEN header[key] ELSE default

MSG_ORIGIN == "Inconsistent ORIGIN_X or _Y keywords in GEOFILE"
MSG_BIN == "Inconsistent XBIN or YBIN keywords in GEOFILE"

\* lines 484-488 and 995-998
geoOriginsAgree(x_hdu, y_hdu) ==
    /\ HdrGet(x_hdu.header, "origin_x", 0) = HdrGet(y_hdu.header, "origin_x", 0)
    /\ HdrGet(x_hdu.header, "origin_y", 0) = HdrGet(y_hdu.header, "origin_y", 0)

\* a mutant of geoBinsAgree: ybin is not compared
geoBinsAgree_xbinOnly(x_hdu, y_hdu) ==
    HdrGet(x_hdu.header, "xbin", 1) = HdrGet(y_hdu.header, "xbin", 1)

\* lines 491-494 and 1002-1004
geoBinsAgree(x_hdu, y_hdu) ==
    /\ HdrGet(x_hdu.header, "xbin", 1) = HdrGet(y_hdu.header, "xbin", 1)
    /\ HdrGet(x_hdu.header, "ybin", 1) = HdrGet(y_hdu.header, "ybin", 1)

\* lines 970-1014
getGeoData(geofile, segment) ==
    LET x_hdu == geofile[segment].x_hdu
        y_hdu == geofile[segment].y_hdu
    IN IF ~geoOriginsAgree(x_hdu, y_hdu)
       THEN [status |-> "RuntimeError", msg |-> MSG_ORIGIN, value |-> <<>>]
       ELSE IF ~geoBinsAgree(x_hdu, y_hdu)
       THEN [status |-> "RuntimeError", msg |-> MSG_BIN, value |-> <<>>]
       ELSE [status |-> "ok", msg |-> "",
             value |-> <<x_hdu.data, HdrGet(x_hdu.header, "origin_x", 0),
                         HdrGet(x_hdu.header, "xbin", 1),
                         y_hdu.data, HdrGet(x_hdu.header, "origin_y", 0),
                         HdrGet(x_hdu.header, "ybin", 1)>>]

\* ccos.geocorrection for offset images that are constant (x_data, y_data,
\* whole pixels): every point moves by the offsets, with and without
\* interpolation
geocorrection(p, x_data, y_data) == <<p[1] - x_data, p[2] - y_data>>

\* lines 470-501; points is the sequence of the (x[i], y[i])
geometricDistortion(points, geofile, segment, igeocorr) ==
    LET x_hdu == geofile[segment].x_hdu
        y_hdu == geofile[segment].y_hdu
    IN IF ~geoOriginsAgree(x_hdu, y_hdu)
       THEN [status |-> "RuntimeError", msg |-> MSG_ORIGIN, points |-> points]
       ELSE IF ~geoBinsAgree(x_hdu, y_hdu)
       THEN [status |-> "RuntimeError", msg |-> MSG_BIN, points |-> points]
       ELSE [status |-> "ok", msg |-> "",
             points |-> [i \in DOMAIN points |->
                            geocorrection(points[i], x_hdu.data, y_hdu.data)]]

(***************************************************************************)
(* Specification SpecGeo: one call of geometricDistortion or getGeoData.   *)
(***************************************************************************)
GeoKeys == {"origin_x", "origin_y", "xbin", "ybin"}
GeoKeyValues(key) == IF key \in {"origin_x", "origin_y"} THEN {0, 1} ELSE {1, 2}

\* every header: each keyword absent, at its default or at another value
GeoHeaders ==
    UNION { { h \in [keys -> {0, 1, 2}] : \A k \in keys : h[k] \in GeoKeyValues(k) } :
            keys \in SUBSET GeoKeys }

XHeaders ==
    { h \in GeoHeaders :
        \/ DOMAIN h = {}
        \/ DOMAIN h = GeoKeys /\ h.origin_x = h.origin_y /\ h.xbin = h.ybin
                              /\ h.xbin = h.origin_x + 1 }

\* the X and Y extensions of one segment
GeoPairs ==
    { [x_hdu |-> [header |-> hx, data |-> 1],
       y_hdu |-> [header |-> hy, data |-> -1]] :
      hx \in XHeaders, hy \in GeoHeaders }

Swapped(pair) == [x_hdu |-> [pair.y_hdu EXCEPT !.data = 1],
                  y_hdu |-> [pair.x_hdu EXCEPT !.data = -1]]

PointArrays == { <<>>, << <<0, 0>>, <<3, 1>> >> }

InitGeo ==
    /\ env \in { [geofile |-> [FUVA |-> p, FUVB |-> Swapped(p)],
                  segment |-> s, igeocorr |-> i, points |-> pts] :
                 p \in GeoPairs, s \in {"FUVA", "FUVB"},
                 i \in {"PERFORM", "COMPLETE"}, pts \in PointArrays }
    /\ dq_array = NoArray
    /\ dq_before = NoArray
    /\ call = NoCall
    /\ ret = DispNone
    /\ log = <<>>
    /\ opened = {}

\* the points are changed in place
CallGeometricDistortion ==
    LET r == geometricDistortion(env.points, env.geofile, env.segment,
                                 env.igeocorr)
    IN /\ call = NoCall
       /\ call' = [op |-> "geometricDistortion", points |-> env.points]
       /\ env' = [env EXCEPT !.points = r.points]
       /\ ret' = [status |-> r.status, msg |-> r.msg, value |-> <<>>]
       /\ opened' = {"geofile"}
       /\ UNCHANGED <<dq_array, dq_before, log>>

CallGetGeoData ==
    /\ call = NoCall
    /\ call' = [op |-> "getGeoData", points |-> env.points]
    /\ ret' = getGeoData(env.geofile, env.segment)
    /\ opened' = {"geofile"}
    /\ UNCHANGED <<env, dq_array, dq_before, log>>

NextGeo == CallGeometricDistortion \/ CallGetGeoData

SpecGeo == InitGeo /\ [][NextGeo]_vars

\* the X and Y grids of the segment differ in a keyword's value, a keyword
\* that is absent having its default
GridsDiffer ==
    LET x == env.geofile[env.segment].x_hdu.header
        y == env.geofile[env.segment].y_hdu.header
    IN \/ HdrGet(x, "origin_x", 0) # HdrGet(y, "origin_x", 0)
       \/ HdrGet(x, "origin_y", 0) # HdrGet(y, "origin_y", 0)
       \/ HdrGet(x, "xbin", 1) # HdrGet(y, "xbin", 1)
       \/ HdrGet(x, "ybin", 1) # HdrGet(y, "ybin", 1)

\* C16: geometricDistortion and getGeoData fail with RuntimeError
\* "Inconsistent ... keywords in GEOFILE" whenever the X and Y offset grids
\* of the segment differ in origin_x, origin_y, xbin or ybin, and the failure
\* comes before any coordinate is transformed: the point arrays are as they
\* were.
C16_InconsistentGeofile ==
    (call.op \in {"geometricDistortion", "getGeoData"} /\ GridsDiffer)
        => /\ ret.status = "RuntimeError"
           /\ ret.msg \in {MSG_ORIGIN, MSG_BIN}
           /\ env.points = call.points

\* geometricDistortion has failed on grids that differ in ybin only, one of
\* them by default, and the points are in place
C16_Witness ==
    /\ call.op = "geometricDistortion"
    /\ env.segment = "FUVA"
    /\ DOMAIN env.geofile.FUVA.x_hdu.header = {}
    /\ env.geofile.FUVA.y_hdu.header = [ybin |-> 2]
    /\ ret.status = "RuntimeError" /\ ret.msg = MSG_BIN
    /\ env.points = << <<0, 0>>, <<3, 1>> >>

(***************************************************************************)
(* Specification SpecOOB: one call of flagOutOfBounds on a windowed        *)
(* exposure whose subarray keywords are drawn slot by slot, subarrays of   *)
(* no size or of negative size among them.                                 *)
(***************************************************************************)
SubChoices ==
    { Sub(1, 1, 2, 2), Sub(0, 0, 1, 1), NoSub, Sub(1, 1, 0, 2),
      Sub(2, 0, 1, -1), Sub(0, 1, -1, 0) }

\* FUV: four slots, the last two of no use; NUV: one or two subarrays
OobSubarrayLists(segment) ==
    IF DetectorOf(segment) = "FUV"
    THEN { <<s1, s2, NoSub, Sub(1, 0, 0, 0)>> :
              s1 \in SubChoices, s2 \in SubChoices }
    ELSE { <<s1>> : s1 \in SubChoices }
         \cup { <<s1, s2>> : s1 \in SubChoices, s2 \in SubChoices }

OobWindowings(segment) ==
    { [phdr |-> [segment |-> segment, subarray |-> TRUE],
       hdr |-> [nsubarry |-> Len(subs), sub |-> Slots(segment, subs)],
       stim_param |-> DefaultStim,
       switches |-> [tempcorr |-> "OMIT", geocorr |-> geocorr,
                     igeocorr |-> geocorr],
       geofile |-> DefaultGeofile] :
         subs \in OobSubarrayLists(segment), geocorr \in {"OMIT", "PERFORM"} }

OobBrftab == CHOOSE t \in BrfTables : Len(t) = 2

OobExposures ==
    { Exposure(segment, x_offset, w, OobBrftab, e) :
         segment \in {"FUVA", "NUVA"}, x_offset \in {0, 1},
         w \in UNION { OobWindowings(s) : s \in {"FUVA", "NUVA"} },
         e \in Envelopes }

InitOOB ==
    /\ env \in { e \in OobExposures : e.phdr.segment = e.info.segment }
    /\ dq_array \in InputArrays(ArrayNY(env.info.segment),
                                ArrayNX(env.info.segment, env.info.x_offset))
    /\ dq_before = dq_array
    /\ call = NoCall
    /\ ret = NoRet
    /\ log = <<>>
    /\ opened = {}

CallFlagOutOfBoundsOnce ==
    /\ call = NoCall
    /\ call' = [op |-> "flagOutOfBounds"]
    /\ Ended(flagOutOfBounds(env, dq_array))
    /\ UNCHANGED env

NextOOB == CallFlagOutOfBoundsOnce

SpecOOB == InitOOB /\ [][NextOOB]_vars

\* the subarray keywords the call reads (lines 746-753)
ReadSlots(a) == { oobIndices(a)[k] : k \in DOMAIN oobIndices(a) }

NonPositiveSize(s) == s.sizex <= 0 \/ s.sizey <= 0

HasNonPositiveSize(a) ==
    \E i \in ReadSlots(a) : NonPositiveSize(a.hdr.sub[i])

\* C17: a subarray whose x size or y size in the header is not positive is
\* a hard failure: flagOutOfBounds fails with MalformedSubarrayGeometry and
\* leaves the array as it was.
C17_NonPositiveSizeFails ==
    (IsOutOfBounds /\ HasNonPositiveSize(env))
        => /\ ret.status = "MalformedSubarrayGeometry"
           /\ dq_array = dq_before

\* the exposure with every subarray of non-positive size taken out of the
\* header's values: its corner and size set to zero
WithoutNonPositive(a) ==
    [a EXCEPT !.hdr.sub =
        [i \in DOMAIN a.hdr.sub |->
            IF NonPositiveSize(a.hdr.sub[i]) THEN NoSub ELSE a.hdr.sub[i]]]

\* C17 as amended: a subarray whose x size or y size is not positive is
\* skipped.  The call does not fail on its account, and its corner and size
\* have no part in the result: array, warnings and status are those of the
\* exposure without it.
C17_NonPositiveSizeSkipped ==
    (IsOutOfBounds /\ HasNonPositiveSize(env))
        => LET r == flagOutOfBounds(WithoutNonPositive(env), dq_before)
           IN /\ ret.status # "MalformedSubarrayGeometry"
              /\ ret.status = r.status
              /\ dq_array = r.dq
              /\ log = r.log

\* next to a window on the spectrum there is a subarray of width 0 and
\* height 2 at (1, 1); the call has ended well and has flagged pixels
C17_Witness ==
    /\ IsOutOfBounds
    /\ env.info.segment = "FUVA"
    /\ env.hdr.sub[0] = Sub(1, 1, 2, 2)
    /\ env.hdr.sub[1] = Sub(1, 1, 0, 2)
    /\ env.switches.geocorr = "OMIT"
    /\ ret.status = "ok"
    /\ log = <<>>
    /\ dq_array # dq_before

(***************************************************************************)
(* computeStat and combineStat.  A band is Data (the sequence of its       *)
(* elements, in N.ravel order); PyNone is an argument that is None.  The   *)
(* bands are floating-point arrays, their elements held as fractions.      *)
(***************************************************************************)
RECURSIVE BitAnd(_, _)
BitAnd(a, b) ==
    IF a = 0 \/ b = 0 THEN 0
    ELSE (a % 2) * (b % 2) + 2 * BitAnd(a \div 2, b \div 2)

\* the default of sdqflags (line 1389)
SDQFLAGS == 3832

\* a mutant of IsGoodPixel: the flags are not looked at
IsGoodPixel_any(dq_band, sdqflags, i) == TRUE

\* lines 1413-1418: element i is kept
IsGoodPixel(dq_band, sdqflags, i) ==
    dq_band = PyNone \/ BitAnd(dq_band.rows[i], sdqflags) = 0

\* lines 1414-1419, 1431-1433: band[mask], or the whole band
RECURSIVE GoodElements(_, _, _, _)
GoodElements(band, dq_band, sdqflags, i) ==
    IF i > Len(band.rows) THEN <<>>
    ELSE (IF IsGoodPixel(dq_band, sdqflags, i) THEN <<band.rows[i]>> ELSE <<>>)
             \o GoodElements(band, dq_band, sdqflags, i + 1)

\* N.sum
RECURSIVE SumSeq(_)
SumSeq(s) == IF s = <<>> THEN R(0) ELSE RAdd(s[1], SumSeq(Tail(s)))

\* N.maximum.reduce of a sequence that is not empty
RECURSIVE MaxSeq(_)
MaxSeq(s) == IF Len(s) = 1 THEN s[1] ELSE RMax(s[1], MaxSeq(Tail(s)))

\* lines 1389-1439
computeStat(sci_band, err_band, dq_band, sdqflags) ==
    LET sci_good == GoodElements(sci_band, dq_band, sdqflags, 1)
        ngoodpix == Len(sci_good)
        err_good == GoodElements(err_band, dq_band, sdqflags, 1)
    IN [ngoodpix |-> ngoodpix,
        sci_goodmax |-> IF ngoodpix > 0 THEN MaxSeq(sci_good) ELSE R(0),
        sci_goodmean |-> IF ngoodpix > 0
                         THEN RDiv(SumSeq(sci_good), R(ngoodpix)) ELSE R(0),
        err_goodmax |-> IF err_band # PyNone /\ ngoodpix > 0
                        THEN MaxSeq(err_good) ELSE R(0),
        err_goodmean |-> IF err_band # PyNone /\ ngoodpix > 0
                         THEN RDiv(SumSeq(err_good), R(ngoodpix)) ELSE R(0)]

\* a mutant of combineStatTerm: the mean is added without its weight
combineStatTerm_unweighted(n, goodmean) == goodmean

\* lines 1466, 1469: n * stat["sci_goodmean"]
combineStatTerm(n, goodmean) == RMul(R(n), goodmean)

\* lines 1455-1459
combineStatZero ==
    [sum_n |-> 0, sci_max |-> R(0), sci_sum |-> R(0), err_max |-> R(0),
     err_sum |-> R(0)]

\* lines 1461-1469: the loop over the dictionaries k, k+1, ...
RECURSIVE combineStatLoop(_, _, _)
combineStatLoop(stat_info, k, acc) ==
    IF k > Len(stat_info) THEN acc
    ELSE LET stat == stat_info[k]
             n == stat.ngoodpix
             has_err == "err_goodmax" \in DOMAIN stat
         IN combineStatLoop(stat_info, k + 1,
              IF n > 0
              THEN [sum_n |-> acc.sum_n + n,
                    sci_max |-> RMax(acc.sci_max, stat.sci_goodmax),
                    sci_sum |-> RAdd(acc.sci_sum,
                                     combineStatTerm(n, stat.sci_goodmean)),
                    err_max |-> IF has_err
                                THEN RMax(acc.err_max, stat.err_goodmax)
                                ELSE acc.err_max,
                    err_sum |-> IF has_err
                                THEN RAdd(acc.err_sum,
                                          combineStatTerm(n, stat.err_goodmean))
                                ELSE acc.err_sum]
              ELSE acc)

\* lines 1441-1477
combineStat(stat_info) ==
    LET acc == combineStatLoop(stat_info, 1, combineStatZero)
        sum_n == acc.sum_n
    IN IF Len(stat_info) = 1 THEN stat_info[1]
       ELSE [ngoodpix |-> sum_n,
             sci_goodmax |-> acc.sci_max,
             sci_goodmean |-> IF sum_n > 0 THEN RDiv(acc.sci_sum, R(sum_n))
                              ELSE acc.sci_sum,
             err_goodmax |-> acc.err_max,
             err_goodmean |-> IF sum_n > 0 THEN RDiv(acc.err_sum, R(sum_n))
                              ELSE acc.err_sum]

(***************************************************************************)
(* Specification SpecStat: one call of computeStat on small bands, or of   *)
(* combineStat on a list of dictionaries that computeStat returns.         *)
(***************************************************************************)
MaxPix == 2
MaxSegments == 3

SciValues == {R(-2), R(-1), R(3)}
ErrValues == {R(1), R(2)}
\* no flag; a flag that is not serious; two that are
DqValues == {0, 4, 8, 24}

BandsOfLen(n) ==
    [sci_band : { Data(v) : v \in SeqsOver(SciValues, n) },
     err_band : { Data(v) : v \in SeqsOver(ErrValues, n) } \cup {PyNone},
     dq_band : { Data(v) : v \in SeqsOver(DqValues, n) } \cup {PyNone},
     sdqflags : {SDQFLAGS, 16}]

Bands == UNION { BandsOfLen(n) : n \in 0..MaxPix }

\* the bands of the segments whose statistics are combined
SegmentBand(sci, err, dq) ==
    [sci_band |-> Data(sci), err_band |-> Data(err), dq_band |-> dq]

SegmentBands ==
    { SegmentBand(<<R(-1)>>, <<R(1)>>, Data(<<0>>)),
      SegmentBand(<<R(-2), R(-1)>>, <<R(2), R(1)>>, PyNone),
      SegmentBand(<<R(3), R(-2), R(-1)>>, <<R(1), R(2), R(2)>>,
                  Data(<<0, 8, 4>>)),
      SegmentBand(<<R(3)>>, <<R(2)>>, Data(<<8>>)) }

\* a dictionary without the keys of the error array
WithoutErr(stat) ==
    [k \in DOMAIN stat \ {"err_goodmax", "err_goodmean"} |-> stat[k]]

StatChoices ==
    LET computed == { computeStat(b.sci_band, b.err_band, b.dq_band, SDQFLAGS) :
                         b \in SegmentBands }
    IN computed \cup { WithoutErr(s) : s \in { t \in computed : t.ngoodpix = 2 } }

StatLists == UNION { SeqsOver(StatChoices, n) : n \in 0..MaxSegments }

InitStat ==
    /\ env \in { [bands |-> b] : b \in Bands }
                  \cup { [stat_info |-> l] : l \in StatLists }
    /\ dq_array = NoArray
    /\ dq_before = NoArray
    /\ call = NoCall
    /\ ret = DispNone
    /\ log = <<>>
    /\ opened = {}

CallComputeStat ==
    /\ call = NoCall
    /\ "bands" \in DOMAIN env
    /\ call' = [op |-> "computeStat"]
    /\ ret' = DispOk(computeStat(env.bands.sci_band, env.bands.err_band,
                                 env.bands.dq_band, env.bands.sdqflags))
    /\ UNCHANGED <<env, dq_array, dq_before, log, opened>>

CallCombineStat ==
    /\ call = NoCall
    /\ "stat_info" \in DOMAIN env
    /\ call' = [op |-> "combineStat"]
    /\ ret' = DispOk(combineStat(env.stat_info))
    /\ UNCHANGED <<env, dq_array, dq_before, log, opened>>

NextStat == CallComputeStat \/ CallCombineStat

SpecStat == InitStat /\ [][NextStat]_vars

(***************************************************************************)
(* Claims about the statistics (specification SpecStat).                   *)
(***************************************************************************)
IsCombineStat == call.op = "combineStat"
IsComputeStat == call.op = "computeStat"

\* the sum of f[i] over the indices in S
RECURSIVE SumOver(_, _)
SumOver(f, S) ==
    IF S = {} THEN R(0)
    ELSE LET i == CHOOSE j \in S : TRUE
         IN RAdd(f[i], SumOver(f, S \ {i}))

RECURSIVE IntSumOver(_, _)
IntSumOver(f, S) ==
    IF S = {} THEN 0
    ELSE LET i == CHOOSE j \in S : TRUE
         IN f[i] + IntSumOver(f, S \ {i})

\* the largest of the f[i], i in S (S is not empty)
MaxOver(f, S) ==
    CHOOSE m \in { f[i] : i \in S } : \A i \in S : ~RLess(m, f[i])

\* the segments with good pixels, and those of them with error statistics
Counted(stat_info) == { i \in DOMAIN stat_info : stat_info[i].ngoodpix > 0 }
CountedErr(stat_info) ==
    { i \in Counted(stat_info) : "err_goodmean" \in DOMAIN stat_info[i] }

\* C18: combineStat of a list of one element returns that element as it
\* is; over N segments with counts n_i it returns ngoodpix = sum (n_i) and,
\* when the sum is positive, sci_goodmean = sum (n_i * mean_i) / sum (n_i),
\* and the mean of the error values weighted by the same counts (a segment
\* without error statistics adds nothing to that sum).
C18_CombinedCountAndMean ==
    IsCombineStat =>
        LET s == env.stat_info
            n == [i \in DOMAIN s |-> s[i].ngoodpix]
            total == IntSumOver(n, DOMAIN s)
            sci == [i \in DOMAIN s |-> RMul(R(n[i]), s[i].sci_goodmean)]
            err == [i \in CountedErr(s) |-> RMul(R(n[i]), s[i].err_goodmean)]
        IN /\ Len(s) = 1 => ret.value = s[1]
           /\ Len(s) # 1 =>
                 /\ ret.value.ngoodpix = total
                 /\ total > 0 =>
                       /\ RMul(ret.value.sci_goodmean, R(total))
                             = SumOver(sci, DOMAIN s)
                       /\ RMul(ret.value.err_goodmean, R(total))
                             = SumOver(err, CountedErr(s))

\* three segments with 1, 2 and 2 good pixels and means -1, -3/2 and 1:
\* 5 good pixels with mean (-1 - 3 + 2) / 5
C18_Witness ==
    /\ IsCombineStat
    /\ Len(env.stat_info) = 3
    /\ [i \in 1..3 |-> env.stat_info[i].ngoodpix] = <<1, 2, 2>>
    /\ [i \in 1..3 |-> env.stat_info[i].sci_goodmean]
          = <<R(-1), Frac(-3, 2), R(1)>>
    /\ \A i \in 1..3 : "err_goodmean" \in DOMAIN env.stat_info[i]
    /\ ret.value.ngoodpix = 5
    /\ ret.value.sci_goodmean = Frac(-2, 5)
    /\ ret.value.err_goodmean = Frac(7, 5)

\* C19: for every list of two or more inputs combineStat returns as
\* sci_goodmax (and err_goodmax) the largest of the maxima of the segments
\* that have a good pixel, also when these maxima are all negative.
C19_CombinedMax ==
    (IsCombineStat /\ Len(env.stat_info) >= 2
                   /\ Counted(env.stat_info) # {})
        => LET s == env.stat_info
           IN /\ ret.value.sci_goodmax
                    = MaxOver([i \in DOMAIN s |-> s[i].sci_goodmax], Counted(s))
              /\ CountedErr(s) # {} =>
                    ret.value.err_goodmax
                       = MaxOver([i \in CountedErr(s) |-> s[i].err_goodmax],
                                 CountedErr(s))

\* the indices of the entries that count
GoodIndices ==
    { i \in DOMAIN env.bands.sci_band.rows :
         env.bands.dq_band = PyNone
            \/ BitAnd(env.bands.dq_band.rows[i], env.bands.sdqflags) = 0 }

\* C20: computeStat restricts every statistic to the entries where
\* (flags & sdqflags) == 0, or to all entries when no flags are given:
\* ngoodpix is their number, sci_goodmean and sci_goodmax are the mean and
\* the maximum of the values there, err_goodmean and err_goodmax those of
\* the errors at the same entries; with no such entry all five are 0.
C20_StatisticsOfGoodEntries ==
    IsComputeStat =>
        LET b == env.bands
            good == GoodIndices
            n == Cardinality(good)
            v == ret.value
        IN /\ v.ngoodpix = n
           /\ n > 0 =>
                 /\ RMul(v.sci_goodmean, R(n)) = SumOver(b.sci_band.rows, good)
                 /\ v.sci_goodmax = MaxOver(b.sci_band.rows, good)
                 /\ b.err_band # PyNone =>
                       /\ RMul(v.err_goodmean, R(n)) = SumOver(b.err_band.rows, good)
                       /\ v.err_goodmax = MaxOver(b.err_band.rows, good)
           /\ n = 0 =>
                 v = [ngoodpix |-> 0, sci_goodmax |-> R(0), sci_goodmean |-> R(0),
                      err_goodmax |-> R(0), err_goodmean |-> R(0)]

\* of two entries the first carries a serious flag: the statistics are those
\* of the second, whose own flag is not serious
C20_Witness ==
    /\ IsComputeStat
    /\ env.bands.sci_band = Data(<<R(3), R(-2)>>)
    /\ env.bands.err_band = Data(<<R(1), R(2)>>)
    /\ env.bands.dq_band = Data(<<8, 4>>)
    /\ env.bands.sdqflags = SDQFLAGS
    /\ ret.value = [ngoodpix |-> 1, sci_goodmax |-> R(-2), sci_goodmean |-> R(-2),
                    err_goodmax |-> R(2), err_goodmean |-> R(2)]

(***************************************************************************)
(* cmpVersion and cmpPart.  A version string is held as the list of parts  *)
(* that split ('.') gives, a part as the sequence of its characters.       *)
(***************************************************************************)
\* ord () of the characters used
Ord == [c \in {"0", "1", "2", "9", "a", "b"} |->
           CASE c = "0" -> 48 [] c = "1" -> 49 [] c = "2" -> 50
             [] c = "9" -> 57 [] c = "a" -> 97 [] c = "b" -> 98]

\* int () of a string of digits that is not empty
RECURSIVE IntOf(_)
IntOf(s) ==
    IF Len(s) = 1 THEN Ord[s[1]] - Ord["0"]
    ELSE 10 * IntOf(SubSeq(s, 1, Len(s) - 1)) + (Ord[s[Len(s)]] - Ord["0"])

\* lines 2009-2018: the loop over the characters from index i (counted from
\* 0) on; the result is int1 and str1
RECURSIVE cmpPartSplit(_, _, _)
cmpPartSplit(s, i, int1) ==
    IF i >= Len(s) THEN [int |-> int1, str |-> <<>>]
    ELSE IF Ord[s[i + 1]] > Ord["9"]
    THEN [int |-> IF i > 0 THEN IntOf(SubSeq(s, 1, i)) ELSE int1,
          str |-> SubSeq(s, i + 1, Len(s))]
    ELSE cmpPartSplit(s, i + 1, IntOf(SubSeq(s, 1, i + 1)))

\* lines 2044-2055: the appended letters break the tie
RECURSIVE cmpPartLetters(_, _, _)
cmpPartLetters(str1, str2, i) ==
    IF i >= Min(Len(str1), Len(str2))
    THEN IF Len(str1) < Len(str2) THEN -1 ELSE 1
    ELSE IF Ord[str1[i + 1]] < Ord[str2[i + 1]] THEN -1
    ELSE IF Ord[str1[i + 1]] > Ord[str2[i + 1]] THEN 1
    ELSE cmpPartLetters(str1, str2, i + 1)

\* lines 1981-2055
cmpPart(s1, s2) ==
    LET p1 == cmpPartSplit(s1, 0, 0)
        p2 == cmpPartSplit(s2, 0, 0)
    IN IF s1 = s2 THEN 0
       ELSE IF p1.int < p2.int THEN -1
       ELSE IF p1.int > p2.int THEN 1
       ELSE IF p1.str = p2.str THEN 0
       ELSE IF p1.str = <<>> THEN -1
       ELSE IF p2.str = <<>> THEN 1
       ELSE cmpPartLetters(p1.str, p2.str, 0)

\* lines 1957-1969: the loop over the parts from index i (counted from 0)
\* on; the result is a return value, or the two flags after the loop
RECURSIVE cmpVersionLoop(_, _, _, _, _, _, _)
cmpVersionLoop(minv, phdrv, calv, i, length, passed_min, passed_cal) ==
    IF i >= length
    THEN [returned |-> FALSE, value |-> 0, passed_min_test |-> passed_min,
          passed_calcos_test |-> passed_cal]
    ELSE LET cmp1 == cmpPart(minv[i + 1], phdrv[i + 1])
             cmp2 == cmpPart(phdrv[i + 1], calv[i + 1])
         IN IF ~passed_min /\ cmp1 > 0
            THEN [returned |-> TRUE, value |-> -1,
                  passed_min_test |-> passed_min,
                  passed_calcos_test |-> passed_cal]
            ELSE IF ~passed_cal /\ cmp2 > 0
            THEN [returned |-> TRUE, value |-> 1,
                  passed_min_test |-> passed_min,
                  passed_calcos_test |-> passed_cal]
            ELSE cmpVersionLoop(minv, phdrv, calv, i + 1, length,
                                passed_min \/ cmp1 < 0,
                                passed_cal \/ cmp2 < 0)

\* lines 1945-1979
cmpVersion(minv, phdrv, calv) ==
    LET length == Min(Len(minv), Min(Len(phdrv), Len(calv)))
        loop == cmpVersionLoop(minv, phdrv, calv, 0, length, FALSE, FALSE)
    IN IF loop.returned THEN loop.value
       ELSE IF loop.passed_min_test \/ loop.passed_calcos_test THEN 0
       ELSE IF Len(minv) > Len(phdrv) THEN -1
       ELSE IF Len(phdrv) > Len(calv) THEN 1
       ELSE 0

(***************************************************************************)
(* Specification SpecVer: one call of cmpVersion.                          *)
(***************************************************************************)
\* the parts "0", "1", "2" and "1a"
VersionParts == { <<"0">>, <<"1">>, <<"2">>, <<"1", "a">> }

\* versions of one part and of two
Versions == SeqsOver(VersionParts, 1) \cup SeqsOver(VersionParts, 2)

InitVer ==
    /\ env \in [min_ver : Versions, phdr_ver : Versions, calcos_ver : Versions]
    /\ dq_array = NoArray
    /\ dq_before = NoArray
    /\ call = NoCall
    /\ ret = DispNone
    /\ log = <<>>
    /\ opened = {}

CallCmpVersion ==
    /\ call = NoCall
    /\ call' = [op |-> "cmpVersion"]
    /\ ret' = DispOk(cmpVersion(env.min_ver, env.phdr_ver, env.calcos_ver))
    /\ UNCHANGED <<env, dq_array, dq_before, log, opened>>

NextVer == CallCmpVersion

SpecVer == InitVer /\ [][NextVer]_vars

\* the order of version strings: the first part that differs decides, and
\* of two strings that agree on their common parts the longer is the larger
\* ("1.1" > "1", as in the examples of the docstring)
RECURSIVE VersionCmp(_, _)
VersionCmp(v, w) ==
    IF v = <<>> /\ w = <<>> THEN 0
    ELSE IF v = <<>> THEN -1
    ELSE IF w = <<>> THEN 1
    ELSE IF cmpPart(v[1], w[1]) # 0 THEN cmpPart(v[1], w[1])
    ELSE VersionCmp(Tail(v), Tail(w))

\* C21: cmpVersion (min_ver, phdr_ver, calcos_ver) returns 0 exactly when
\* min_ver <= phdr_ver <= calcos_ver, -1 whenever min_ver > phdr_ver, and
\* +1 whenever phdr_ver > calcos_ver (with min_ver <= phdr_ver), also for
\* strings with different numbers of parts.
C21_VersionWindow ==
    call.op = "cmpVersion" =>
        LET low == VersionCmp(env.min_ver, env.phdr_ver)
            high == VersionCmp(env.phdr_ver, env.calcos_ver)
        IN ret.value = (IF low > 0 THEN -1 ELSE IF high > 0 THEN 1 ELSE 0)

(***************************************************************************)
(* getInputDQ.  The file is a record of the keywords read from the primary *)
(* header, the header of the DQ extension and the data of the extension    *)
(* (NoArray when the data portion is null).                                *)
(***************************************************************************)
\* calcosparam: the extended array is wider than the detector by x_offset
\* on either side
FUV_X_OFFSET == 1
NUV_X_OFFSET == 1
FUV_EXTENDED_X == FUV_X + 2 * FUV_X_OFFSET
NUV_EXTENDED_X == NUV_X + 2 * NUV_X_OFFSET

\* lines 547-557: npix as <<ny, nx>>
dqNpix(fd) ==
    IF fd.detector = "FUV" THEN <<FUV_Y, FUV_EXTENDED_X>>
    ELSE IF fd.obsmode = "IMAGING" THEN <<NUV_Y, NUV_X>>
    ELSE <<NUV_Y, NUV_EXTENDED_X>>

\* lines 547-557: x_offset
dqXOffset(fd) ==
    IF fd.detector = "FUV" THEN FUV_X_OFFSET
    ELSE IF fd.obsmode = "IMAGING" THEN 0
    ELSE NUV_X_OFFSET

\* line 564: N.bitwise_and (dq_array, 16383-(64+128))
dqKeepMask(v) == BitAnd(v, 16383 - (64 + 128))

\* lines 569-573: the constant array for a null data portion
dqConstant(fd) ==
    LET npix == dqNpix(fd)
        pixvalue == IF "pixvalue" \in DOMAIN fd.hdr THEN fd.hdr.pixvalue ELSE 0
    IN Full(npix[1], npix[2], pixvalue)

\* lines 527-577
getInputDQ(fd) ==
    LET npix == dqNpix(fd)
    IN IF fd.hdr.naxis > 0
       THEN IF NX(fd.data) = npix[2]
            THEN [status |-> "ok", msg |-> "",
                  value |-> [y \in DOMAIN fd.data |->
                                [x \in DOMAIN fd.data[y] |->
                                    dqKeepMask(fd.data[y][x])]]]
            \* line 567 reads len_raw, a name that is not defined
            ELSE [status |-> "NameError", msg |-> "len_raw", value |-> NoArray]
       ELSE [status |-> "ok", msg |-> "", value |-> dqConstant(fd)]

(***************************************************************************)
(* Specification SpecDQ: one call of getInputDQ.                           *)
(***************************************************************************)
\* the flags of a stored pixel: four patterns
DqPatterns == {"checks", "lamp", "edge", "zero"}

DqPixel(pattern, y, x) ==
    CASE pattern = "checks" -> IF (x + y) % 2 = 0 THEN 0 ELSE 10
      [] pattern = "lamp" -> 8
      [] pattern = "edge" -> IF x = 0 THEN 64 + 2 ELSE 128
      [] pattern = "zero" -> 0

DqStored(ny, nx, pattern) ==
    [y \in 0..(ny - 1) |-> [x \in 0..(nx - 1) |-> DqPixel(pattern, y, x)]]

\* the headers of the DQ extension with a null data portion
DqNullHeaders ==
    {[naxis |-> 0]} \cup [naxis : {0}, pixvalue : {0, 4}]

DqPrimary(d, o) == [detector |-> d, obsmode |-> o]
DqRawX(d) == IF d = "FUV" THEN FUV_X ELSE NUV_X

\* the files: a null data portion, or data of the extended or of the raw width
DqFiles ==
    UNION { UNION {
         { [detector |-> d, obsmode |-> o, hdr |-> h, data |-> NoArray] :
               h \in DqNullHeaders }
         \cup
         { [detector |-> d, obsmode |-> o, hdr |-> [naxis |-> 2],
            data |-> DqStored(dqNpix(DqPrimary(d, o))[1], nx, p)] :
               nx \in {dqNpix(DqPrimary(d, o))[2], DqRawX(d)}, p \in DqPatterns }
         : o \in {"IMAGING", "TIME-TAG", "ACCUM"} } : d \in {"FUV", "NUV"} }

InitDQ ==
    /\ env \in DqFiles
    /\ dq_array = NoArray
    /\ dq_before = NoArray
    /\ call = NoCall
    /\ ret = DispNone
    /\ log = <<>>
    /\ opened = {}

CallGetInputDQ ==
    /\ call = NoCall
    /\ call' = [op |-> "getInputDQ"]
    /\ ret' = getInputDQ(env)
    /\ UNCHANGED <<env, dq_array, dq_before, log, opened>>

NextDQ == CallGetInputDQ

SpecDQ == InitDQ /\ [][NextDQ]_vars

\* the stored data inside a zero-filled array of the extended shape
DqPlaced(fd) ==
    LET npix == dqNpix(fd)
        x_offset == dqXOffset(fd)
    IN [y \in 0..(npix[1] - 1) |->
           [x \in 0..(npix[2] - 1) |->
               IF x - x_offset \in DOMAIN fd.data[y]
               THEN fd.data[y][x - x_offset] ELSE 0]]

\* C22: getInputDQ returns the stored data with every flag bit unchanged,
\* at the same column when the stored width is the extended width and at
\* column + x_offset inside a zero-filled extended array when it is
\* narrower; with a null data portion it returns a constant array of the
\* extended shape filled with PIXVALUE (0 if absent).
C22_InputDQReturned ==
    call.op = "getInputDQ" =>
        /\ ret.status = "ok"
        /\ ret.value =
              (IF env.hdr.naxis = 0 THEN dqConstant(env)
               ELSE IF NX(env.data) = dqNpix(env)[2] THEN env.data
               ELSE DqPlaced(env))

(***************************************************************************)
(* The list of subarrays in flagOutOfBounds.                               *)
(***************************************************************************)
\* the call gets as far as the list of subarrays: the exposure is windowed
\* and the header has the keywords of every slot that is read
EnumerationReached(a) ==
    /\ ~oobNotWindowed(a)
    /\ ReadSlots(a) \subseteq DOMAIN a.hdr.sub

NotFullSize(a, s) ==
    <<s.sizex, s.sizey>> # <<DetX(a.info.segment), DetY(a.info.segment)>>

\* the slots of K in increasing order
InSlotOrder(K) ==
    CHOOSE q \in [1..Cardinality(K) -> K] :
        \A j \in 1..Cardinality(K) : \A k \in 1..Cardinality(K) :
            j < k => q[j] < q[k]

\* the rectangles of the slots K, or one rectangle for the whole detector
RectanglesOf(a, K) ==
    IF K = {}
    THEN << [x0 |-> 0, y0 |-> 0, x1 |-> H(DetX(a.info.segment)),
             y1 |-> H(DetY(a.info.segment))] >>
    ELSE [k \in 1..Cardinality(K) |-> oobSub(a, a.hdr.sub[InSlotOrder(K)[k]])]

\* C23: the list of rectangles used for clearing holds exactly the nominal
\* subarrays (slots 0-3 for FUVA, 4-7 for FUVB, 0..nsubarry-1 for NUV)
\* whose size is not the full detector size; if none remains it holds one
\* rectangle (0,0)-(detector X size, detector Y size).  It is never empty.
C23_SubarrayList ==
    (IsOutOfBounds /\ EnumerationReached(env))
        => LET K == { i \in ReadSlots(env) : NotFullSize(env, env.hdr.sub[i]) }
           IN /\ oobSubarrays(env) = RectanglesOf(env, K)
              /\ oobSubarrays(env) # <<>>

\* C23 as amended: the list holds exactly the nominal subarrays whose x size
\* and y size are positive and whose size is not the full detector size, in
\* the order of their slots; if none remains it holds one rectangle for the
\* whole detector.  It is never empty.
C23_PositiveSubarrayList ==
    (IsOutOfBounds /\ EnumerationReached(env))
        => LET K == { i \in ReadSlots(env) :
                        /\ ~NonPositiveSize(env.hdr.sub[i])
                        /\ NotFullSize(env, env.hdr.sub[i]) }
           IN /\ oobSubarrays(env) = RectanglesOf(env, K)
              /\ oobSubarrays(env) # <<>>

\* the one subarray of the header has the size of the detector: it is
\* dropped and the rectangle for the whole detector takes its place
C23_Witness ==
    /\ IsOutOfBounds
    /\ EnumerationReached(env)
    /\ \E i \in ReadSlots(env) : ~NotFullSize(env, env.hdr.sub[i])
    /\ Len(oobSubarrays(env)) = 1
    /\ ret.status = "ok"

(***************************************************************************)
(* The rectangles of flagOutOfBounds and the active area.                  *)
(***************************************************************************)
\* the active area of the exposure: (b_low, b_high, b_left, b_right)
AreaOf(a) == activeArea(a.info.segment, "brftab", a.brftab).value

\* the call gets as far as the loop over the rectangles (lines 821-854)
ClearingReached(a) ==
    /\ EnumerationReached(a)
    /\ ~(a.switches.tempcorr = "PERFORM" /\ Len(a.stim_param.x0) = 0)
    /\ activeArea(a.info.segment, "brftab", a.brftab).status = "ok"

\* a pixel of the active area lies in the half-open rectangle
Overlaps(sub, area) ==
    \E y \in area[1]..area[2] : \E x \in area[3]..area[4] :
        /\ sub.y0 <= H(y) /\ H(y) < sub.y1
        /\ sub.x0 <= H(x) /\ H(x) < sub.x1

Illuminated(a) ==
    LET Inside(sub) == Overlaps(sub, AreaOf(a))
    IN SelectSeq(oobCorrected(a), Inside)

\* C24: every rectangle of the list that lies entirely outside the active
\* area, missing it in the cross-dispersion or in the dispersion direction,
\* is cleared directly and is not counted as illuminated; every rectangle
\* that overlaps the active area is counted.  The rectangles counted, and
\* the warnings about their number, are those of the overlapping ones.
C24_OutsideNotCounted ==
    (IsOutOfBounds /\ ClearingReached(env))
        => /\ oobFound(oobCorrected(env), AreaOf(env)) = Illuminated(env)
           /\ (WARN_NONE_FOUND \in { log[k] : k \in DOMAIN log })
                 <=> Illuminated(env) = <<>>

\* the rectangles flagOutOfBounds counts in nfound
FoundBy(a) == oobFound(oobCorrected(a), AreaOf(a))

\* the call gets past the reading of the geofile (lines 860-863)
GeofileRead(a) ==
    a.switches.geocorr = "PERFORM" => getGeoDataConsistent(a.geofile)

\* the scratch grid when the boundary of the rectangle sub is the one that
\* is cleared, after the rectangles outside the active area
ScratchWith(a, dq, sub) ==
    LET cleared == oobClearOutside(a, Full(NY(dq), NX(dq), DQ_OUT_OF_BOUNDS),
                                   oobCorrected(a), AreaOf(a), 1)
    IN IF a.switches.geocorr = "PERFORM"
       THEN [y \in DOMAIN dq |->
                [x \in DOMAIN dq[y] |->
                    IF clear_rowsClears(a, NY(dq), NX(dq), sub, y, x)
                    THEN DQ_OK ELSE cleared[y][x]]]
       ELSE clearSubarray(cleared, sub, oobDx(a), oobDy(a), a.info.x_offset)

\* C25: when more than one illuminated rectangle is found, flagOutOfBounds
\* logs a warning and continues, and the rectangle whose boundary is
\* cleared in the scratch grid (directly, or through its edge arrays when
\* geocorr is PERFORM) is the first illuminated rectangle of the list.
C25_FirstIlluminatedRectangle ==
    (IsOutOfBounds /\ ClearingReached(env) /\ GeofileRead(env)
         /\ Len(FoundBy(env)) > 1)
        => /\ ret.status = "ok"
           /\ WARN_MANY_FOUND \in { log[k] : k \in DOMAIN log }
           /\ dq_array =
                 oobMerge(dq_before,
                          ScratchWith(env, dq_before, FoundBy(env)[1]))

\* C26: when no illuminated rectangle is found, flagOutOfBounds logs a
\* warning and goes on to the end: the call returns normally after OR-ing
\* the scratch grid into the array, with geocorr PERFORM and without.
C26_NoneFoundContinues ==
    (IsOutOfBounds /\ ClearingReached(env) /\ GeofileRead(env)
         /\ FoundBy(env) = <<>>)
        => /\ ret.status = "ok"
           /\ WARN_NONE_FOUND \in { log[k] : k \in DOMAIN log }
           /\ \A y \in DOMAIN dq_array : \A x \in DOMAIN dq_array[y] :
                 dq_array[y][x] \in
                     {dq_before[y][x], OrFlag(dq_before[y][x], DQ_OUT_OF_BOUNDS)}

(***************************************************************************)
(* applyOffsets on whole edge arrays (sequences of halves).                *)
(***************************************************************************)
\* lines 895-904
applyOffsets(x_left, x_right, nx, dx, x_offset) ==
    << [k \in DOMAIN x_left |-> applyOffsetsLeft(x_left[k], dx, x_offset)],
       [k \in DOMAIN x_right |->
           applyOffsetsRight(x_right[k], nx, dx, x_offset)] >>

(***************************************************************************)
(* Specification SpecOffsets: one call of applyOffsets.                    *)
(***************************************************************************)
\* edge coordinates, in halves: before, in and beyond an array of DetSize
EdgeValues == {-H(2), 1, H(DetSize - 1), H(DetSize + 1)}

EdgeArrays == SeqsOver(EdgeValues, 1) \cup SeqsOver(EdgeValues, 2)

InitOffsets ==
    /\ env \in [x_left : EdgeArrays, x_right : EdgeArrays,
                nx : {DetSize - 1, DetSize}, dx : {-1, 0, 1},
                x_offset : {0, 1}]
    /\ Len(env.x_left) = Len(env.x_right)
    /\ dq_array = NoArray
    /\ dq_before = NoArray
    /\ call = NoCall
    /\ ret = DispNone
    /\ log = <<>>
    /\ opened = {}

CallApplyOffsets ==
    /\ call = NoCall
    /\ call' = [op |-> "applyOffsets"]
    /\ ret' = DispOk(applyOffsets(env.x_left, env.x_right, env.nx, env.dx,
                                  env.x_offset))
    /\ UNCHANGED <<env, dq_array, dq_before, log, opened>>

NextOffsets == CallApplyOffsets

SpecOffsets == InitOffsets /\ [][NextOffsets]_vars

\* C27: applyOffsets clamps the offset coordinates to [0, n - 1]: every
\* element of both returned arrays, lower/left and upper/right, lies in
\* [0, n - 1].
C27_ClampedToArray ==
    call.op = "applyOffsets" =>
        \A side \in {1, 2} : \A k \in DOMAIN ret.value[side] :
            /\ 0 <= ret.value[side][k]
            /\ ret.value[side][k] <= H(env.nx - 1)

(***************************************************************************)
(* The bounds updateDQArray hands to ccos.bindq for one row of the table.  *)
(***************************************************************************)
\* lines 653-673
updateDQArrayBounds(row, minmax_shifts, minmax_doppler) ==
    [lx |-> ShiftedLx(row.lx, minmax_shifts, minmax_doppler),
     ly |-> ShiftedLy(row.ly, minmax_shifts),
     ux |-> ShiftedUx(row.lx, row.dx, minmax_shifts, minmax_doppler),
     uy |-> ShiftedUy(row.ly, row.dy, minmax_shifts)]

(***************************************************************************)
(* Specification SpecSmear: the bounds of one row for shifts of either     *)
(* sign, up to MaxSmearH halves of a pixel.                                *)
(***************************************************************************)
MaxSmearH == 4

SmearShifts == (-MaxSmearH)..MaxSmearH

SmearShiftRanges ==
    { s \in SmearShifts \X SmearShifts \X SmearShifts \X SmearShifts :
          s[1] <= s[2] /\ s[3] <= s[4] }

SmearRows == { BpixRow("FUVA", 1, 0, 2, 1, 2), BpixRow("FUVA", 0, 1, 1, 3, 4) }

InitSmear ==
    /\ env \in [row : SmearRows, minmax_shifts : SmearShiftRanges,
                minmax_doppler : DopplerRanges]
    /\ dq_array = NoArray
    /\ dq_before = NoArray
    /\ call = NoCall
    /\ ret = DispNone
    /\ log = <<>>
    /\ opened = {}

CallUpdateDQArrayBounds ==
    /\ call = NoCall
    /\ call' = [op |-> "updateDQArrayBounds"]
    /\ ret' = DispOk(updateDQArrayBounds(env.row, env.minmax_shifts,
                                         env.minmax_doppler))
    /\ UNCHANGED <<env, dq_array, dq_before, log, opened>>

NextSmear == CallUpdateDQArrayBounds

SpecSmear == InitSmear /\ [][NextSmear]_vars

\* C28: smearing never shrinks a bad-pixel region: for every row and every
\* envelope with min <= max on each axis and in the Doppler shift, the
\* rectangle before clipping spans at least dx columns and at least dy
\* rows, whatever the signs of the shifts.
C28_SmearingNeverShrinks ==
    call.op = "updateDQArrayBounds" =>
        /\ ret.value.ux - ret.value.lx + 1 >= env.row.dx
        /\ ret.value.uy - ret.value.ly + 1 >= env.row.dy

(***************************************************************************)
(* Specification SpecClear: one call of clearSubarray on a scratch array   *)
(* that is flagged throughout, with limits in whole pixels.                *)
(***************************************************************************)
ClearLimits == {0, 1, DetSize}
ClearShifts == {-1, 0, 2}

InitClear ==
    /\ env \in [x0 : ClearLimits, x1 : ClearLimits, y0 : ClearLimits,
                y1 : ClearLimits, dx : ClearShifts, dy : ClearShifts,
                x_offset : {0, 1}]
    /\ dq_array = Full(DetSize, DetSize, DQ_OUT_OF_BOUNDS)
    /\ dq_before = dq_array
    /\ call = NoCall
    /\ ret = DispNone
    /\ log = <<>>
    /\ opened = {}

CallClearSubarray ==
    /\ call = NoCall
    /\ call' = [op |-> "clearSubarray"]
    /\ dq_before' = dq_array
    /\ dq_array' = clearSubarray(dq_array,
                                 [x0 |-> H(env.x0), x1 |-> H(env.x1),
                                  y0 |-> H(env.y0), y1 |-> H(env.y1)],
                                 env.dx, env.dy, env.x_offset)
    /\ UNCHANGED <<env, ret, log, opened>>

NextClear == CallClearSubarray

SpecClear == InitClear /\ [][NextClear]_vars

\* C29: clearSubarray sets to DQ_OK exactly the pixels of the scratch array
\* in the half-open rectangle [x0 + x_offset - dx, x1 + x_offset - dx) x
\* [y0 - dy, y1 - dy) and leaves every other pixel as it was; when the
\* shifted rectangle lies outside the array, no pixel is cleared.
C29_ClearsIntersection ==
    call.op = "clearSubarray" =>
        \A y \in DOMAIN dq_array : \A x \in DOMAIN dq_array[y] :
            dq_array[y][x] =
                (IF /\ env.x0 + env.x_offset - env.dx <= x
                    /\ x < env.x1 + env.x_offset - env.dx
                    /\ env.y0 - env.dy <= y
                    /\ y < env.y1 - env.dy
                 THEN DQ_OK ELSE dq_before[y][x])

\* the pixel (y, x) lies in a region flagOutOfBounds clears in the scratch
\* array: a rectangle outside the active area, or the rectangle kept for
\* the end, cleared directly or through its edges
ClearedInScratch(a, dq, y, x) ==
    LET subs == oobCorrected(a)
        found == FoundBy(a)
    IN \/ \E k \in DOMAIN subs :
              /\ oobOutside(subs[k], AreaOf(a))
              /\ clearSubarrayClears(NY(dq), NX(dq), subs[k], oobDx(a),
                                     oobDy(a), a.info.x_offset, y, x)
       \/ /\ a.switches.geocorr = "PERFORM"
          /\ clear_rowsClears(a, NY(dq), NX(dq), found[Len(found)], y, x)
       \/ /\ a.switches.geocorr # "PERFORM"
          /\ found # <<>>
          /\ clearSubarrayClears(NY(dq), NX(dq), found[Len(found)], oobDx(a),
                                 oobDy(a), a.info.x_offset, y, x)

\* C30: flagOutOfBounds changes no flag other than the out of bounds flag:
\* every pixel after the call has its value from before the call, or that
\* value OR DQ_OUT_OF_BOUNDS, and every pixel inside a region cleared in
\* the scratch array keeps exactly its value from before the call.
C30_OnlyOutOfBoundsFlag ==
    IsOutOfBounds =>
        \A y \in DOMAIN dq_array : \A x \in DOMAIN dq_array[y] :
            /\ dq_array[y][x] \in
                  {dq_before[y][x], BitOr(dq_before[y][x], DQ_OUT_OF_BOUNDS)}
            /\ (ret.status = "ok" /\ ClearingReached(env)
                    /\ ClearedInScratch(env, dq_before, y, x))
                  => dq_array[y][x] = dq_before[y][x]

\* a call that has ended well has set the flag in a pixel that had other
\* flags and has left a cleared pixel with its flags
C30_Witness ==
    /\ IsOutOfBounds
    /\ ret.status = "ok"
    /\ ClearingReached(env)
    /\ \E y \in DOMAIN dq_array : \E x \in DOMAIN dq_array[y] :
          /\ dq_before[y][x] \notin {DQ_OK, DQ_OUT_OF_BOUNDS}
          /\ dq_before[y][x] < DQ_OUT_OF_BOUNDS
          /\ dq_array[y][x] = dq_before[y][x] + DQ_OUT_OF_BOUNDS
    /\ \E y \in DOMAIN dq_array : \E x \in DOMAIN dq_array[y] :
          /\ ClearedInScratch(env, dq_before, y, x)
          /\ dq_before[y][x] \notin {DQ_OK, DQ_OUT_OF_BOUNDS}
          /\ dq_array[y][x] = dq_before[y][x]

====
